---- MODULE Spec2Model ----
(***************************************************************************)
(* The dairy ledger's entity store (src/database.py, class DairyDatabase)  *)
(* and its summary engine, as a state machine over the three SQLite tables.*)
(*                                                                         *)
(* Representation.                                                         *)
(*  - A table is the sequence of its rows in rowid order (the order of a   *)
(*    table scan).                                                         *)
(*  - TEXT values that the code compares or sorts are sequences of ASCII   *)
(*    codes, compared bytewise as SQLite's BINARY collation does.          *)
(*  - A Python date is <<year, month, day>>; an absent date is <<>>.       *)
(*  - REAL inputs are whole numbers (kg, currency per kg, currency);       *)
(*    milk_mound is in thousandths of a mound.  The summary's rent,        *)
(*    mandi_average, commission, net_amount and remaining_amount are in    *)
(*    hundredths, so that x * 0.05 is x * 5 exactly.                       *)
(*  - An SQL NULL / absent optional is <<>>, a present value v is <<v>>.   *)
(*  - An id of 0 stands for "no id" (None and 0 are both falsy in Python). *)
(*                                                                         *)
(* Every method of DairyDatabase opens a connection, runs its statements,  *)
(* commits and closes, so a call is one atomic step.  A method is modelled *)
(* as an operator from the store it is called on to what it returns (ret)  *)
(* and to the tables it leaves behind; a query, which leaves the store as  *)
(* it found it, is the operator of its return value alone.  The actions    *)
(* apply the mutating methods to inputs drawn from small sets.             *)
(***************************************************************************)
EXTENDS Integers, Sequences, FiniteSets, TLC

VARIABLES
    customers,        \* table customers
    transactions,     \* table transactions
    payments,         \* table payments
    sqlite_sequence,  \* AUTOINCREMENT bookkeeping: table name -> largest rowid ever used
    issued,           \* history: per table, the ids the add_* calls have returned
    deleted,          \* history: customer ids whose delete_customer returned True
    form,             \* the quantity fields of the transaction form of app.py
    db,               \* per DairyDatabase instance: whose connection and cursor self.conn and self.cursor hold
    session           \* per session: the operation it is running and where it stands in it

vars == <<customers, transactions, payments, sqlite_sequence, issued, deleted, form,
          db, session>>

-----------------------------------------------------------------------------
(* Bounds of the exploration *)

MaxCustomers == 2
MaxTransactions == 2
MaxPayments == 2
MaxTenths == 40       \* quantities typed in kg: 0.0, 0.1, ... up to this many tenths
MaxHundredths == 40   \* quantities typed in mound: 0.00, 0.01, ... up to this many hundredths

-----------------------------------------------------------------------------
(* Values *)

NULL == <<>>

None == [py |-> "None"]

Max(a, b) == IF a >= b THEN a ELSE b

\* The bytes of the time_of_day and name strings the callers pass.
Chars(s) ==
    CASE s = "Morning" -> <<77, 111, 114, 110, 105, 110, 103>>
      [] s = "Evening" -> <<69, 118, 101, 110, 105, 110, 103>>
      [] s = ""        -> <<>>
      [] s = "Ali"     -> <<65, 108, 105>>
      [] s = "Bilal"   -> <<66, 105, 108, 97, 108>>
      [] s = "ali"     -> <<97, 108, 105>>

RECURSIVE CompareFrom(_, _, _)
\* memcmp from position i on, the shorter text sorting first on a tie.
CompareFrom(a, b, i) ==
    IF i > Len(a) \/ i > Len(b)
    THEN (IF Len(a) < Len(b) THEN -1 ELSE IF Len(a) > Len(b) THEN 1 ELSE 0)
    ELSE IF a[i] < b[i] THEN -1
    ELSE IF a[i] > b[i] THEN 1
    ELSE CompareFrom(a, b, i + 1)

\* Comparison of two TEXT values under the BINARY collation: -1, 0 or 1.
TextCompare(a, b) == CompareFrom(a, b, 1)

TextGE(a, b) == TextCompare(a, b) >= 0

TextLE(a, b) == TextCompare(a, b) <= 0

\* ASCII code of the decimal digit of n at place p (p = 1, 10, 100, 1000).
DigitAt(n, p) == 48 + ((n \div p) % 10)

\* date.isoformat(): "YYYY-MM-DD", zero padded.
isoformat(d) ==
    << DigitAt(d[1], 1000), DigitAt(d[1], 100), DigitAt(d[1], 10), DigitAt(d[1], 1),
       45,
       DigitAt(d[2], 10), DigitAt(d[2], 1),
       45,
       DigitAt(d[3], 10), DigitAt(d[3], 1) >>

\* datetime.fromisoformat(text).date()
fromisoformat(s) ==
    << (s[1] - 48) * 1000 + (s[2] - 48) * 100 + (s[3] - 48) * 10 + (s[4] - 48),
       (s[6] - 48) * 10 + (s[7] - 48),
       (s[9] - 48) * 10 + (s[10] - 48) >>

\* Truth value of an optional date argument: a date object is always truthy.
Truthy(d) == d # NULL

-----------------------------------------------------------------------------
(* Inputs the callers supply *)

CustomerIds == 1..MaxCustomers

CustomerInputs ==
    { [name |-> "Ali",   phone |-> "0300", address |-> "Lahore"],
      [name |-> "Bilal", phone |-> "",     address |-> ""] }

TransactionInputs ==
    { [date |-> <<2024, 6, 1>>,  milk_kg |-> 10, milk_mound |-> 250, rate |-> 80, time_of_day |-> "Morning"],
      [date |-> <<2024, 6, 1>>,  milk_kg |-> 5,  milk_mound |-> 125, rate |-> 80, time_of_day |-> "Evening"],
      [date |-> <<2024, 1, 31>>, milk_kg |-> 5,  milk_mound |-> 125, rate |-> 90, time_of_day |-> "Evening"] }

PaymentInputs ==
    { [date |-> <<2024, 6, 2>>,  amount |-> 500],
      [date |-> <<2024, 1, 31>>, amount |-> 200] }

\* The range bounds the queries are asked with; an absent bound is NULL.
QueryDates == { <<2024, 1, 31>>, <<2024, 2, 1>>, <<2024, 6, 1>>, <<2024, 6, 30>> }

OptionalDates == QueryDates \cup {NULL}

-----------------------------------------------------------------------------
(* Row helpers *)

Ids(rows) == {rows[i].id : i \in 1..Len(rows)}

RECURSIVE SetMax(_)
SetMax(S) == IF S = {} THEN 0 ELSE LET x == CHOOSE x \in S : TRUE IN Max(x, SetMax(S \ {x}))

-----------------------------------------------------------------------------
(* SQLite *)

\* A rowid column without AUTOINCREMENT: one more than the largest rowid now in
\* the table, so the rowid of a deleted last row is handed out again.
PlainRowid(rows, seq) == SetMax(Ids(rows)) + 1

\* id INTEGER PRIMARY KEY AUTOINCREMENT: the rowid of an INSERT is one more than
\* the largest rowid the table has ever held (kept in sqlite_sequence).
AutoincrementRowid(rows, seq) == Max(SetMax(Ids(rows)), seq) + 1

\* PRAGMA foreign_keys: connect() never switches it on, and SQLite's default is
\* off, so the FOREIGN KEY clauses of the schema are parsed and not enforced.
foreign_keys == FALSE

\* What the FOREIGN KEY (customer_id) REFERENCES customers (id) clause lets through.
ForeignKeyOk(customer_id) == foreign_keys => customer_id \in Ids(customers)

\* INSERT OR REPLACE: a row with an id that is not stored is added.
SqlReplaceInto(rows, id, row) ==
    IF id \in Ids(rows)
    THEN [i \in 1..Len(rows) |-> IF rows[i].id = id THEN row ELSE rows[i]]
    ELSE Append(rows, row)

\* UPDATE without its WHERE clause: every row is overwritten.
SqlUpdateEveryRow(rows, id, row) ==
    [i \in 1..Len(rows) |-> IF id \in Ids(rows) THEN row ELSE rows[i]]

\* UPDATE ... WHERE id = ?: the rows after the statement.
SqlUpdate(rows, id, row) ==
    [i \in 1..Len(rows) |-> IF rows[i].id = id THEN row ELSE rows[i]]

\* A DELETE that is never committed: the rows stay.
SqlDeleteUncommitted(rows, id) == rows

\* DELETE ... WHERE id <= ?
SqlDeleteUpTo(rows, id) == SelectSeq(rows, LAMBDA r : r.id > id)

\* DELETE ... WHERE id = ?: the rows after the statement.
SqlDelete(rows, id) == SelectSeq(rows, LAMBDA r : r.id # id)

\* cursor.rowcount of an UPDATE or DELETE ... WHERE id = ?
RowCount(rows, id) == Len(SelectSeq(rows, LAMBDA r : r.id = id))

\* SELECT COUNT(*) FROM rows WHERE customer_id = ?
CountOf(rows, customer_id) == Len(SelectSeq(rows, LAMBDA r : r.customer_id = customer_id))

-----------------------------------------------------------------------------
(* Customer methods *)

CustomerRow(id, customer) ==
    [id |-> id, name |-> customer.name, phone |-> customer.phone, address |-> customer.address]

add_customer(customer) ==
    LET customer_id == AutoincrementRowid(customers, sqlite_sequence.customers)
    IN  [ret |-> customer_id,
         customers |-> Append(customers, CustomerRow(customer_id, customer)),
         sqlite_sequence |-> [sqlite_sequence EXCEPT !.customers = customer_id]]

update_customer(customer) ==
    IF customer.id = 0
    THEN [ret |-> FALSE, customers |-> customers]
    ELSE [ret |-> RowCount(customers, customer.id) > 0,
          customers |-> SqlUpdate(customers, customer.id, CustomerRow(customer.id, customer))]

\* The guard with the payments left out.
RefusesDeleteTransactionsOnly(customer_id) ==
    CountOf(transactions, customer_id) > 0

\* The guard of delete_customer: transaction_count > 0 or payment_count > 0.
RefusesDelete(customer_id) ==
    LET transaction_count == CountOf(transactions, customer_id)
        payment_count == CountOf(payments, customer_id)
    IN  transaction_count > 0 \/ payment_count > 0

delete_customer(customer_id) ==
    IF RefusesDelete(customer_id)
    THEN [ret |-> FALSE, customers |-> customers]
    ELSE [ret |-> RowCount(customers, customer_id) > 0,
          customers |-> SqlDelete(customers, customer_id)]

-----------------------------------------------------------------------------
(* Transaction methods *)

\* The INSERT with milk_mound recomputed from milk_kg (kg / 40, in thousandths).
TransactionRowMoundFromKg(id, transaction) ==
    [id |-> id,
     customer_id |-> transaction.customer_id,
     date |-> isoformat(transaction.date),
     milk_kg |-> transaction.milk_kg,
     milk_mound |-> (transaction.milk_kg * 1000) \div 40,
     rate |-> transaction.rate,
     time_of_day |-> transaction.time_of_day]

TransactionRow(id, transaction) ==
    [id |-> id,
     customer_id |-> transaction.customer_id,
     date |-> isoformat(transaction.date),
     milk_kg |-> transaction.milk_kg,
     milk_mound |-> transaction.milk_mound,
     rate |-> transaction.rate,
     time_of_day |-> transaction.time_of_day]

add_transaction(transaction) ==
    LET transaction_id == AutoincrementRowid(transactions, sqlite_sequence.transactions)
    IN  [ret |-> transaction_id,
         transactions |-> Append(transactions, TransactionRow(transaction_id, transaction)),
         sqlite_sequence |-> [sqlite_sequence EXCEPT !.transactions = transaction_id]]

update_transaction(transaction) ==
    IF transaction.id = 0
    THEN [ret |-> FALSE, transactions |-> transactions]
    ELSE [ret |-> RowCount(transactions, transaction.id) > 0,
          transactions |-> SqlUpdate(transactions, transaction.id,
                                     TransactionRow(transaction.id, transaction))]

delete_transaction(transaction_id) ==
    [ret |-> RowCount(transactions, transaction_id) > 0,
     transactions |-> SqlDelete(transactions, transaction_id)]

-----------------------------------------------------------------------------
(* Payment methods *)

PaymentRow(id, payment) ==
    [id |-> id,
     customer_id |-> payment.customer_id,
     date |-> isoformat(payment.date),
     amount |-> payment.amount]

add_payment(payment) ==
    LET payment_id == AutoincrementRowid(payments, sqlite_sequence.payments)
    IN  [ret |-> payment_id,
         payments |-> Append(payments, PaymentRow(payment_id, payment)),
         sqlite_sequence |-> [sqlite_sequence EXCEPT !.payments = payment_id]]

update_payment(payment) ==
    IF payment.id = 0
    THEN [ret |-> FALSE, payments |-> payments]
    ELSE [ret |-> RowCount(payments, payment.id) > 0,
          payments |-> SqlUpdate(payments, payment.id, PaymentRow(payment.id, payment))]

delete_payment(payment_id) ==
    [ret |-> RowCount(payments, payment_id) > 0,
     payments |-> SqlDelete(payments, payment_id)]

-----------------------------------------------------------------------------
(* Queries *)

Customer(row) ==
    [id |-> row.id, name |-> row.name, phone |-> row.phone, address |-> row.address]

Transaction(row) ==
    [id |-> row.id,
     customer_id |-> row.customer_id,
     date |-> fromisoformat(row.date),
     milk_kg |-> row.milk_kg,
     milk_mound |-> row.milk_mound,
     rate |-> row.rate,
     time_of_day |-> row.time_of_day]

Payment(row) ==
    [id |-> row.id,
     customer_id |-> row.customer_id,
     date |-> fromisoformat(row.date),
     amount |-> row.amount]

\* The amount taken from the mound column.
amountFromMound(transaction) == transaction.milk_mound * transaction.rate

\* Transaction.amount, derived on read.
amount(transaction) == transaction.milk_kg * transaction.rate

\* The orders in which n selected rows can be delivered.
Arrangements(n) ==
    {p \in [1..n -> 1..n] : \A i, j \in 1..n : i # j => p[i] # p[j]}

\* ORDER BY date
ByDate(r1, r2) == TextCompare(r1.date, r2.date)

\* ORDER BY date, time_of_day: both columns are TEXT and compare bytewise.
ByDateThenTimeOfDay(r1, r2) ==
    LET c == TextCompare(r1.date, r2.date)
    IN  IF c # 0 THEN c
        ELSE TextCompare(Chars(r1.time_of_day), Chars(r2.time_of_day))

\* ORDER BY name compared without regard to case (COLLATE NOCASE).
ByNameNoCase(r1, r2) ==
    LET lower(t) == [i \in 1..Len(t) |-> IF t[i] >= 65 /\ t[i] <= 90 THEN t[i] + 32 ELSE t[i]]
    IN  TextCompare(lower(Chars(r1.name)), lower(Chars(r2.name)))

\* ORDER BY name: TEXT under the BINARY collation.
ByName(r1, r2) == TextCompare(Chars(r1.name), Chars(r2.name))

\* A sorter that delivers equal keys in any order.
SorterPlacesTiesAnyOrder(c, i, j) == c <= 0

\* The sorter's rule for two adjacent rows of its output, c being their
\* comparison and i, j their places in the scan: the smaller key first, and of
\* two equal keys the row the scan delivered first.  The scan of a table without
\* an index is in rowid order, and SQLite's sorter keeps equal keys in the order
\* it was fed them (observed on the SQLite 3.40 this code runs on).
SorterPlaces(c, i, j) == c < 0 \/ (c = 0 /\ i < j)

\* The results ORDER BY date delivers: the arrangements of the selected rows
\* that the sorter's rule admits (there is exactly one).
OrderByDate(rows) ==
    LET n == Len(rows)
        ordered == {p \in Arrangements(n) :
                        \A i \in 1..(n - 1) :
                            SorterPlaces(ByDate(rows[p[i]], rows[p[i + 1]]), p[i], p[i + 1])}
    IN  {[i \in 1..n |-> rows[p[i]]] : p \in ordered}

\* The results ORDER BY date, time_of_day delivers.
OrderByDateThenTimeOfDay(rows) ==
    LET n == Len(rows)
        ordered == {p \in Arrangements(n) :
                        \A i \in 1..(n - 1) :
                            SorterPlaces(ByDateThenTimeOfDay(rows[p[i]], rows[p[i + 1]]),
                                         p[i], p[i + 1])}
    IN  {[i \in 1..n |-> rows[p[i]]] : p \in ordered}

\* The results ORDER BY name delivers.
OrderByName(rows) ==
    LET n == Len(rows)
        ordered == {p \in Arrangements(n) :
                        \A i \in 1..(n - 1) :
                            SorterPlaces(ByName(rows[p[i]], rows[p[i + 1]]), p[i], p[i + 1])}
    IN  {[i \in 1..n |-> rows[p[i]]] : p \in ordered}

\* The range test with the upper bound exclusive.
InRangeExclusiveEnd(row, customer_id, start_date, end_date) ==
    /\ row.customer_id = customer_id
    /\ Truthy(start_date) => TextGE(row.date, isoformat(start_date))
    /\ Truthy(end_date) => TextCompare(row.date, isoformat(end_date)) < 0

\* The range test with the two bounds joined by OR.
InRangeEitherBound(row, customer_id, start_date, end_date) ==
    /\ row.customer_id = customer_id
    /\ \/ Truthy(start_date) => TextGE(row.date, isoformat(start_date))
       \/ Truthy(end_date) => TextLE(row.date, isoformat(end_date))

\* WHERE customer_id = ? [AND date >= ?] [AND date <= ?], a bound being added to
\* the query only when the argument is truthy.
InRange(row, customer_id, start_date, end_date) ==
    /\ row.customer_id = customer_id
    /\ Truthy(start_date) => TextGE(row.date, isoformat(start_date))
    /\ Truthy(end_date) => TextLE(row.date, isoformat(end_date))

\* A lookup that reads the first row of the table whatever the id.
get_customerFirstRow(customer_id) ==
    IF Len(customers) > 0 THEN Customer(customers[1]) ELSE None

\* get_customer: the Customer of the first fetched row, or None.
get_customer(customer_id) ==
    LET rows == SelectSeq(customers, LAMBDA r : r.id = customer_id)
    IN  IF Len(rows) > 0 THEN Customer(rows[1]) ELSE None

\* get_all_customers: the set of the lists the call can return (the sorter admits one).
get_all_customers ==
    {[i \in 1..Len(rows) |-> Customer(rows[i])] : rows \in OrderByName(customers)}

\* get_transaction: the Transaction of the first fetched row, or None.
get_transaction(transaction_id) ==
    LET rows == SelectSeq(transactions, LAMBDA r : r.id = transaction_id)
    IN  IF Len(rows) > 0 THEN Transaction(rows[1]) ELSE None

\* get_payment: the Payment of the first fetched row, or None.
get_payment(payment_id) ==
    LET rows == SelectSeq(payments, LAMBDA r : r.id = payment_id)
    IN  IF Len(rows) > 0 THEN Payment(rows[1]) ELSE None

\* get_customer_transactions: the set of the lists the call can return (the sorter admits one).
get_customer_transactions(customer_id, start_date, end_date) ==
    LET selected == SelectSeq(transactions,
                              LAMBDA r : InRange(r, customer_id, start_date, end_date))
    IN  {[i \in 1..Len(rows) |-> Transaction(rows[i])] :
            rows \in OrderByDateThenTimeOfDay(selected)}

\* get_customer_payments: the set of the lists the call can return (the sorter admits one).
get_customer_payments(customer_id, start_date, end_date) ==
    LET selected == SelectSeq(payments,
                              LAMBDA r : InRange(r, customer_id, start_date, end_date))
    IN  {[i \in 1..Len(rows) |-> Payment(rows[i])] : rows \in OrderByDate(selected)}

-----------------------------------------------------------------------------
(* Summary methods *)

RECURSIVE SeqSum(_)
SeqSum(numbers) ==
    IF numbers = <<>> THEN 0 ELSE Head(numbers) + SeqSum(Tail(numbers))

\* SUM over the terms of the selected rows: NULL when no row is selected.
SqlSum(terms) == IF terms = <<>> THEN NULL ELSE <<SeqSum(terms)>>

\* Python's "value or 0" on a fetched column.
OrZero(value) == IF value = NULL \/ value[1] = 0 THEN 0 ELSE value[1]

RentPercent == 5
MandiAveragePercent == 2
CommissionPercent == 3

\* A whole amount in hundredths.
Hundredths(x) == x * 100

\* net_amount with the commission left out of the deductions.
NetAmountWithoutCommission(total_amount, rent, mandi_average, commission) ==
    Hundredths(total_amount) - (rent + mandi_average)

\* net_amount = total_amount - (rent + mandi_average + commission)
NetAmount(total_amount, rent, mandi_average, commission) ==
    Hundredths(total_amount) - (rent + mandi_average + commission)

\* The summary's WHERE clause without the customer_id test.
InSummaryRangeAnyCustomer(row, customer_id, start_date, end_date) ==
    /\ TextGE(row.date, isoformat(start_date))
    /\ TextLE(row.date, isoformat(end_date))

\* The summary's WHERE clause with the end of the range left out (date < ?).
InSummaryRangeExclusiveEnd(row, customer_id, start_date, end_date) ==
    /\ row.customer_id = customer_id
    /\ TextGE(row.date, isoformat(start_date))
    /\ TextCompare(row.date, isoformat(end_date)) < 0

\* The summary's WHERE clause with the start of the range left out.
InSummaryRangeOpenStart(row, customer_id, start_date, end_date) ==
    /\ row.customer_id = customer_id
    /\ TextLE(row.date, isoformat(end_date))

\* WHERE customer_id = ? AND date >= ? AND date <= ? of the two summary queries.
InSummaryRange(row, customer_id, start_date, end_date) ==
    /\ row.customer_id = customer_id
    /\ TextGE(row.date, isoformat(start_date))
    /\ TextLE(row.date, isoformat(end_date))

\* The term taken from the mound column: milk_mound * rate.
LineAmountFromMound(row) == row.milk_mound * row.rate

\* The term milk_kg * rate of SUM(milk_kg * rate).
LineAmount(row) == row.milk_kg * row.rate

\* The two queries of get_customer_summary and the arithmetic on their results,
\* over the transactions and payments tables as the call finds them.
SummaryQueries(transaction_rows, payment_table, customer_id, start_date, end_date) ==
    LET milk_rows == SelectSeq(transaction_rows,
                        LAMBDA r : InSummaryRange(r, customer_id, start_date, end_date))
        payment_rows == SelectSeq(payment_table,
                        LAMBDA r : InSummaryRange(r, customer_id, start_date, end_date))
        total_milk_kg == OrZero(SqlSum([i \in 1..Len(milk_rows) |-> milk_rows[i].milk_kg]))
        total_milk_mound == OrZero(SqlSum([i \in 1..Len(milk_rows) |-> milk_rows[i].milk_mound]))
        total_amount == OrZero(SqlSum([i \in 1..Len(milk_rows) |-> LineAmount(milk_rows[i])]))
        total_paid == OrZero(SqlSum([i \in 1..Len(payment_rows) |-> payment_rows[i].amount]))
        rent == total_milk_kg * RentPercent
        mandi_average == total_milk_kg * MandiAveragePercent
        commission == total_milk_kg * CommissionPercent
        net_amount == NetAmount(total_amount, rent, mandi_average, commission)
        remaining_amount == net_amount - Hundredths(total_paid)
    IN  [total_milk_kg |-> total_milk_kg,
         total_milk_mound |-> total_milk_mound,
         total_amount |-> total_amount,
         rent |-> rent,
         mandi_average |-> mandi_average,
         commission |-> commission,
         net_amount |-> net_amount,
         total_paid |-> total_paid,
         remaining_amount |-> remaining_amount]

\* get_customer_summary: each call connects and runs the two queries anew.
get_customer_summary(customer_id, start_date, end_date) ==
    SummaryQueries(transactions, payments, customer_id, start_date, end_date)

-----------------------------------------------------------------------------
(* Python floats and the unit conversions                                   *)
(*                                                                          *)
(* A float is an IEEE 754 binary64: zero, or m * 2^e with 2^52 <= m < 2^53. *)
(* The significand m is held in four limbs of 16 bits, the least            *)
(* significant first, so that every intermediate value stays below 2^31.    *)
(* The quantities of the form are far from the ends of the exponent range,  *)
(* so subnormals, infinities and overflow do not arise.                     *)

Limb == 2^16

\* w * k for 0 <= k <= 2^11; the top limb takes what the product outgrows.
WideMul(w, k) ==
    LET p1 == w[1] * k
        p2 == w[2] * k + (p1 \div Limb)
        p3 == w[3] * k + (p2 \div Limb)
        p4 == w[4] * k + (p3 \div Limb)
    IN  <<p1 % Limb, p2 % Limb, p3 % Limb, p4>>

\* Quotient q and remainder r of w by k, for 1 <= k <= 2^11.
WideDiv(w, k) ==
    LET t4 == w[4]
        t3 == (t4 % k) * Limb + w[3]
        t2 == (t3 % k) * Limb + w[2]
        t1 == (t2 % k) * Limb + w[1]
    IN  [q |-> <<t1 \div k, t2 \div k, t3 \div k, t4 \div k>>, r |-> t1 % k]

\* w + 1
WideSucc(w) ==
    IF w[1] + 1 < Limb THEN <<w[1] + 1, w[2], w[3], w[4]>>
    ELSE IF w[2] + 1 < Limb THEN <<0, w[2] + 1, w[3], w[4]>>
    ELSE IF w[3] + 1 < Limb THEN <<0, 0, w[3] + 1, w[4]>>
    ELSE <<0, 0, 0, w[4] + 1>>

\* 2^52 <= w < 2^53
IsSignificand(w) == w[4] >= 16 /\ w[4] < 32

Zero == [m |-> <<0, 0, 0, 0>>, e |-> 0]

One == [m |-> <<0, 0, 0, 16>>, e |-> -52]

\* Round to nearest, ties to even: the quotient d.q of a division by k that left
\* the remainder d.r, rounded; a significand that rounds up to 2^53 is 2^52 with
\* the exponent one higher.
Rounded(d, k, e) ==
    LET up == 2 * d.r > k \/ (2 * d.r = k /\ d.q[1] % 2 = 1)
        m == IF up THEN WideSucc(d.q) ELSE d.q
    IN  IF m[4] = 32 THEN [m |-> <<0, 0, 0, 16>>, e |-> e + 1] ELSE [m |-> m, e |-> e]

\* The float product x * k, k a whole number from 0 to 2^11 (exact as a float).
FloatMul(x, k) ==
    IF x = Zero \/ k = 0 THEN Zero
    ELSE LET product == WideMul(x.m, k)
             t == CHOOSE t \in 0..11 : IsSignificand(WideDiv(product, 2^t).q)
         IN  Rounded(WideDiv(product, 2^t), 2^t, x.e + t)

\* The float quotient x / k, k a whole number from 1 to 2^11.
FloatDiv(x, k) ==
    IF x = Zero THEN Zero
    ELSE LET s == CHOOSE s \in 0..11 : IsSignificand(WideDiv(WideMul(x.m, 2^s), k).q)
         IN  Rounded(WideDiv(WideMul(x.m, 2^s), k), k, x.e - s)

\* The float a decimal numeral n / 10^places parses to: the nearest binary64.
Decimal(n, places) == FloatDiv(FloatMul(One, n), 10^places)

\* The factor of a unit that is not the 40 kg mound.
convert_mound_to_kgOtherFactor(mound_value) == FloatMul(mound_value, 37)

\* report_generator.py: kg_value / 40.0
convert_kg_to_mound(kg_value) == FloatDiv(kg_value, 40)

\* report_generator.py: mound_value * 40.0
convert_mound_to_kg(mound_value) == FloatMul(mound_value, 40)

\* app.py: kg_value / 40, the int 40 becoming the float 40.0
app_convert_kg_to_mound(kg_value) == FloatDiv(kg_value, 40)

\* app.py: mound_value * 40
app_convert_mound_to_kg(mound_value) == FloatMul(mound_value, 40)

\* v + w; the top limb takes what the sum outgrows.
WideAdd(v, w) ==
    LET s1 == v[1] + w[1]
        s2 == v[2] + w[2] + (s1 \div Limb)
        s3 == v[3] + w[3] + (s2 \div Limb)
        s4 == v[4] + w[4] + (s3 \div Limb)
    IN  <<s1 % Limb, s2 % Limb, s3 % Limb, s4>>

\* The float sum x + y of two floats that are zero or positive and, when both are
\* positive, have exponents at most 10 apart (as the quantities and amounts of a
\* statement have): the exact sum, rounded.
FloatAdd(x, y) ==
    IF x = Zero THEN y
    ELSE IF y = Zero THEN x
    ELSE LET big == IF x.e >= y.e THEN x ELSE y
             small == IF x.e >= y.e THEN y ELSE x
             exact == WideAdd(WideMul(big.m, 2^(big.e - small.e)), small.m)
             t == CHOOSE t \in 0..11 : IsSignificand(WideDiv(exact, 2^t).q)
         IN  Rounded(WideDiv(exact, 2^t), 2^t, small.e + t)

\* The terms added one by one, first to last, to a running total.
RECURSIVE FloatSumFrom(_, _)
FloatSumFrom(total, terms) ==
    IF terms = <<>> THEN total
    ELSE FloatSumFrom(FloatAdd(total, Head(terms)), Tail(terms))

\* The terms in the opposite order.
Reversed(terms) == [i \in 1..Len(terms) |-> terms[Len(terms) + 1 - i]]

\* A SUM that takes the rows last to first.
SqlRealSumLastFirst(terms) == FloatSumFrom(Zero, Reversed(terms))

\* "SUM(column) ... fetchone()[0] or 0" over a REAL column: SQLite 3.40 adds the
\* term of each row to a double that starts at 0.0, in the order the table scan
\* delivers the rows (by rowid: the tables have no index); no row gives NULL, and
\* NULL and 0.0 both give 0.
SqlRealSum(terms) == FloatSumFrom(Zero, terms)

\* The term milk_kg * rate of SUM(milk_kg * rate), rate a whole number of rupees.
RealLineAmount(row) == FloatMul(row.milk_kg, row.rate)

\* Transaction.amount on floats: milk_kg * rate.
real_amount(transaction) == FloatMul(transaction.milk_kg, transaction.rate)

\* The three SUMs of get_customer_summary over tables whose quantities and
\* amounts are floats.
SummaryTotals(customer_id, start_date, end_date) ==
    LET milk_rows == SelectSeq(transactions,
                        LAMBDA r : InSummaryRange(r, customer_id, start_date, end_date))
        payment_rows == SelectSeq(payments,
                        LAMBDA r : InSummaryRange(r, customer_id, start_date, end_date))
    IN  [total_milk_kg |-> SqlRealSum([i \in 1..Len(milk_rows) |-> milk_rows[i].milk_kg]),
         total_amount |-> SqlRealSum([i \in 1..Len(milk_rows) |-> RealLineAmount(milk_rows[i])]),
         total_paid |-> SqlRealSum([i \in 1..Len(payment_rows) |-> payment_rows[i].amount])]

\* The form as it is first drawn: the unit radio on its first option and the
\* number input at its min_value.
EmptyForm ==
    [unit_selection |-> "Kilograms (kg)",
     entered |-> [unit_selection |-> "Kilograms (kg)", value |-> Zero],
     milk_kg |-> Zero, milk_mound |-> app_convert_kg_to_mound(Zero)]

-----------------------------------------------------------------------------
(* The balance and the bills of app.py and report_generator.py. Amounts of     *)
(* deliveries and payments are whole rupees; deductions, net amounts and      *)
(* balances are in hundredths of a rupee.                                     *)

\* date(2000, 1, 1): "Start from a long time ago".
LongTimeAgo == <<2000, 1, 1>>

\* The 'Current Balance' of the daily entry page and of the record-payment form
\* on the day today: the remaining_amount of the summary from 2000-01-01 to today.
current_balance(customer_id, today) ==
    get_customer_summary(customer_id, LongTimeAgo, today).remaining_amount

\* The remaining balance create_bill_pdf works out for the last line of a bill:
\* milk_value + (mandi_average - rent - commission) - paid_amount, printed when
\* it is not zero.
create_bill_pdf(bill_summary) ==
    LET milk_value == SeqSum([i \in 1..Len(bill_summary.transactions) |->
                                 amount(bill_summary.transactions[i])])
        adjustments == bill_summary.mandi_average - bill_summary.rent - bill_summary.commission
        net_amount == Hundredths(milk_value) + adjustments
        paid_amount == SeqSum([i \in 1..Len(bill_summary.payments) |->
                                  bill_summary.payments[i].amount])
        balance == net_amount - Hundredths(paid_amount)
    IN  [balance |-> balance, printed |-> balance # 0]

\* "Generate Bill" of the customer bill report: the BillSummary built from
\* get_customer_summary and the two range queries (none for an unknown customer).
show_customer_bill_report(customer_id, start_date, end_date) ==
    LET customer == get_customer(customer_id)
        summary == get_customer_summary(customer_id, start_date, end_date)
    IN  IF customer = None THEN {}
        ELSE {[customer |-> customer,
               total_milk_kg |-> summary.total_milk_kg,
               total_milk_mound |-> summary.total_milk_mound,
               rent |-> summary.rent,
               mandi_average |-> summary.mandi_average,
               commission |-> summary.commission,
               total_amount |-> Hundredths(summary.total_amount),
               paid_amount |-> summary.total_paid,
               remaining_amount |-> summary.remaining_amount,
               transactions |-> transaction_list,
               payments |-> payment_list,
               start_date |-> start_date,
               end_date |-> end_date] :
                 transaction_list \in get_customer_transactions(customer_id, start_date, end_date),
                 payment_list \in get_customer_payments(customer_id, start_date, end_date)}

\* "Assuming avg rate of Rs 80 for rent": the factor of the three deductions.
AssumedAverageRate == 80

\* "Generate Complete Bill" of the daily entry page for the selected customer and
\* the From/To dates, with the three percentages of the bill adjustments: no bill
\* when the range holds no transaction.
GenerateCompleteBill(customer_id, start_date, end_date, rent_percentage, mandi_percentage, commission_percentage) ==
    {LET total_milk_kg == SeqSum([i \in 1..Len(all_transactions) |-> all_transactions[i].milk_kg])
         total_milk_mound == SeqSum([i \in 1..Len(all_transactions) |-> all_transactions[i].milk_mound])
         total_amount == SeqSum([i \in 1..Len(all_transactions) |-> amount(all_transactions[i])])
         rent == total_milk_kg * rent_percentage * AssumedAverageRate
         mandi_average == total_milk_kg * mandi_percentage * AssumedAverageRate
         commission == total_milk_kg * commission_percentage * AssumedAverageRate
         net_amount == Hundredths(total_amount) - rent - commission + mandi_average
         paid_amount == SeqSum([i \in 1..Len(payment_list) |-> payment_list[i].amount])
         remaining_amount == net_amount - Hundredths(paid_amount)
     IN  [customer |-> get_customer(customer_id),
          total_milk_kg |-> total_milk_kg,
          total_milk_mound |-> total_milk_mound,
          rent |-> rent,
          mandi_average |-> mandi_average,
          commission |-> commission,
          total_amount |-> net_amount,
          paid_amount |-> paid_amount,
          remaining_amount |-> remaining_amount,
          transactions |-> all_transactions,
          payments |-> payment_list,
          start_date |-> start_date,
          end_date |-> end_date] :
        all_transactions \in {l \in get_customer_transactions(customer_id, start_date, end_date) :
                                 l # <<>>},
        payment_list \in get_customer_payments(customer_id, start_date, end_date)}

-----------------------------------------------------------------------------
(* The sessions that call the store. Streamlit runs each browser session in a  *)
(* thread of its own and get_database() is a cached resource, so the sessions  *)
(* of one server share one DairyDatabase; a second process on the same         *)
(* database file has a DairyDatabase of its own. A connection and its cursor   *)
(* are named after the session that opened them; 0 stands for None.            *)

Sessions == {1, 2}

Instances == {1, 2}

\* __init__: self.conn = None, self.cursor = None.
Unconnected == [conn |-> 0, cursor |-> 0]

\* A cursor as conn.cursor() hands it out: nothing inserted, no statement run.
FreshCursor == [lastrowid |-> 0, rowcount |-> -1]

\* A session between two operations, bound to the DairyDatabase instance i.
IdleSession(i) ==
    [instance |-> i, calls |-> 0, pc |-> "idle", op |-> "", arg |-> NULL,
     transaction_count |-> 0, payment_count |-> 0, local |-> NULL,
     cursor |-> FreshCursor, uncommitted |-> NULL, ret |-> NULL]

-----------------------------------------------------------------------------
(* The store as a state machine *)

\* DairyDatabase(): initialize_database creates the three empty tables.
Init ==
    /\ customers = <<>>
    /\ transactions = <<>>
    /\ payments = <<>>
    /\ sqlite_sequence = [customers |-> 0, transactions |-> 0, payments |-> 0]
    /\ issued = [customers |-> {}, transactions |-> {}, payments |-> {}]
    /\ deleted = {}
    /\ form = EmptyForm
    /\ db = [i \in Instances |-> Unconnected]
    /\ session = [s \in Sessions |-> IdleSession(1)]

CustomerArgs(id) ==
    {[id |-> id, name |-> c.name, phone |-> c.phone, address |-> c.address] :
        c \in CustomerInputs}

TransactionArgs(id) ==
    {[id |-> id, customer_id |-> c, date |-> t.date, milk_kg |-> t.milk_kg,
      milk_mound |-> t.milk_mound, rate |-> t.rate, time_of_day |-> t.time_of_day] :
        c \in CustomerIds, t \in TransactionInputs}

PaymentArgs(id) ==
    {[id |-> id, customer_id |-> c, date |-> p.date, amount |-> p.amount] :
        c \in CustomerIds, p \in PaymentInputs}

AddCustomer(customer) ==
    LET call == add_customer(customer)
    IN  /\ call.ret <= MaxCustomers
        /\ customers' = call.customers
        /\ sqlite_sequence' = call.sqlite_sequence
        /\ issued' = [issued EXCEPT !.customers = @ \cup {call.ret}]
        /\ UNCHANGED <<transactions, payments, deleted, form, db, session>>

UpdateCustomer(customer) ==
    /\ customers' = update_customer(customer).customers
    /\ UNCHANGED <<transactions, payments, sqlite_sequence, issued, deleted, form, db, session>>

DeleteCustomer(customer_id) ==
    LET call == delete_customer(customer_id)
    IN  /\ customers' = call.customers
        /\ deleted' = IF call.ret THEN deleted \cup {customer_id} ELSE deleted
        /\ UNCHANGED <<transactions, payments, sqlite_sequence, issued, form, db, session>>

AddTransaction(transaction) ==
    LET call == add_transaction(transaction)
    IN  /\ call.ret <= MaxTransactions
        /\ ForeignKeyOk(transaction.customer_id)
        /\ transactions' = call.transactions
        /\ sqlite_sequence' = call.sqlite_sequence
        /\ issued' = [issued EXCEPT !.transactions = @ \cup {call.ret}]
        /\ UNCHANGED <<customers, payments, deleted, form, db, session>>

UpdateTransaction(transaction) ==
    /\ transaction.id # 0 => ForeignKeyOk(transaction.customer_id)
    /\ transactions' = update_transaction(transaction).transactions
    /\ UNCHANGED <<customers, payments, sqlite_sequence, issued, deleted, form, db, session>>

DeleteTransaction(transaction_id) ==
    /\ transactions' = delete_transaction(transaction_id).transactions
    /\ UNCHANGED <<customers, payments, sqlite_sequence, issued, deleted, form, db, session>>

AddPayment(payment) ==
    LET call == add_payment(payment)
    IN  /\ call.ret <= MaxPayments
        /\ ForeignKeyOk(payment.customer_id)
        /\ payments' = call.payments
        /\ sqlite_sequence' = call.sqlite_sequence
        /\ issued' = [issued EXCEPT !.payments = @ \cup {call.ret}]
        /\ UNCHANGED <<customers, transactions, deleted, form, db, session>>

UpdatePayment(payment) ==
    /\ payment.id # 0 => ForeignKeyOk(payment.customer_id)
    /\ payments' = update_payment(payment).payments
    /\ UNCHANGED <<customers, transactions, sqlite_sequence, issued, deleted, form, db, session>>

DeletePayment(payment_id) ==
    /\ payments' = delete_payment(payment_id).payments
    /\ UNCHANGED <<customers, transactions, sqlite_sequence, issued, deleted, form, db, session>>

Next ==
    \/ \E c \in CustomerArgs(0) : AddCustomer(c)
    \/ \E id \in 0..MaxCustomers : \E c \in CustomerArgs(id) : UpdateCustomer(c)
    \/ \E id \in CustomerIds : DeleteCustomer(id)
    \/ \E t \in TransactionArgs(0) : AddTransaction(t)
    \/ \E id \in 0..MaxTransactions : \E t \in TransactionArgs(id) : UpdateTransaction(t)
    \/ \E id \in 1..MaxTransactions : DeleteTransaction(id)
    \/ \E p \in PaymentArgs(0) : AddPayment(p)
    \/ \E id \in 0..MaxPayments : \E p \in PaymentArgs(id) : UpdatePayment(p)
    \/ \E id \in 1..MaxPayments : DeletePayment(id)

Spec == Init /\ [][Next]_vars

-----------------------------------------------------------------------------
(* The store under a second choice of inputs: names that are empty (the default *)
(* of Customer.name) or differ in case, and deliveries that differ from one     *)
(* another in the rate alone or in milk_kg alone.                               *)

CustomerNames == {"", "Ali", "Bilal", "ali"}

NamedCustomerArgs(id) ==
    {[id |-> id, name |-> n, phone |-> "", address |-> ""] : n \in CustomerNames}

RevisedTransactionInputs ==
    { [date |-> <<2024, 6, 1>>, milk_kg |-> 10, milk_mound |-> 250, rate |-> 80, time_of_day |-> "Morning"],
      [date |-> <<2024, 6, 1>>, milk_kg |-> 10, milk_mound |-> 250, rate |-> 90, time_of_day |-> "Morning"],
      [date |-> <<2024, 6, 1>>, milk_kg |-> 5,  milk_mound |-> 250, rate |-> 80, time_of_day |-> "Morning"] }

RevisedTransactionArgs(id) ==
    {[id |-> id, customer_id |-> c, date |-> t.date, milk_kg |-> t.milk_kg,
      milk_mound |-> t.milk_mound, rate |-> t.rate, time_of_day |-> t.time_of_day] :
        c \in CustomerIds, t \in RevisedTransactionInputs}

NextNames ==
    \/ \E c \in NamedCustomerArgs(0) : AddCustomer(c)
    \/ \E id \in 0..MaxCustomers : \E c \in NamedCustomerArgs(id) : UpdateCustomer(c)
    \/ \E id \in CustomerIds : DeleteCustomer(id)
    \/ \E t \in RevisedTransactionArgs(0) : AddTransaction(t)
    \/ \E id \in 0..MaxTransactions : \E t \in RevisedTransactionArgs(id) : UpdateTransaction(t)
    \/ \E id \in 1..MaxTransactions : DeleteTransaction(id)

SpecNames == Init /\ [][NextNames]_vars

-----------------------------------------------------------------------------
(* The quantity fields of the transaction form (app.py: add form and edit form) *)

store == <<customers, transactions, payments, sqlite_sequence, issued, deleted>>

\* The add form with the unit "Kilograms (kg)": the typed value is milk_kg and
\* milk_mound is converted from it.
EnterKilograms(tenths) ==
    LET milk_kg == Decimal(tenths, 1)
    IN  /\ form' = [unit_selection |-> "Kilograms (kg)",
                    entered |-> [unit_selection |-> "Kilograms (kg)", value |-> milk_kg],
                    milk_kg |-> milk_kg, milk_mound |-> app_convert_kg_to_mound(milk_kg)]
        /\ UNCHANGED <<store, db, session>>

\* The add form with the unit "Mound": the typed value is milk_mound and milk_kg
\* is converted from it.
EnterMound(hundredths) ==
    LET milk_mound == Decimal(hundredths, 2)
    IN  /\ form' = [unit_selection |-> "Mound",
                    entered |-> [unit_selection |-> "Mound", value |-> milk_mound],
                    milk_kg |-> app_convert_mound_to_kg(milk_mound), milk_mound |-> milk_mound]
        /\ UNCHANGED <<store, db, session>>

\* The edit form opened on the saved quantities with the unit "Kilograms (kg)":
\* the kg field shows the saved milk_kg and milk_mound is converted from it.
EditInKilograms ==
    /\ form' = [form EXCEPT !.unit_selection = "Kilograms (kg)",
                            !.milk_mound = app_convert_kg_to_mound(form.milk_kg)]
    /\ UNCHANGED <<store, db, session>>

\* The edit form with the unit "Mound": the mound field shows the saved
\* milk_mound and milk_kg is converted from it.
EditInMound ==
    /\ form' = [form EXCEPT !.unit_selection = "Mound",
                            !.milk_kg = app_convert_mound_to_kg(form.milk_mound)]
    /\ UNCHANGED <<store, db, session>>

NextForm ==
    \/ \E tenths \in 0..MaxTenths : EnterKilograms(tenths)
    \/ \E hundredths \in 0..MaxHundredths : EnterMound(hundredths)
    \/ EditInKilograms
    \/ EditInMound

SpecForm == Init /\ [][NextForm]_vars

-----------------------------------------------------------------------------
(* The two ledger tables alone: deliveries and payments are added, edited and   *)
(* deleted for the customer ids 1 and 2 (the foreign keys are not enforced, so  *)
(* the calls need no customers row).                                            *)

NextLedger ==
    \/ \E t \in TransactionArgs(0) : AddTransaction(t)
    \/ \E id \in 0..MaxTransactions : \E t \in TransactionArgs(id) : UpdateTransaction(t)
    \/ \E id \in 1..MaxTransactions : DeleteTransaction(id)
    \/ \E p \in PaymentArgs(0) : AddPayment(p)
    \/ \E id \in 0..MaxPayments : \E p \in PaymentArgs(id) : UpdatePayment(p)
    \/ \E id \in 1..MaxPayments : DeletePayment(id)

SpecLedger == Init /\ [][NextLedger]_vars

-----------------------------------------------------------------------------
(* The store called directly: it checks no field, so a caller can pass a        *)
(* milk_mound that is not milk_kg / 40, a time_of_day outside the form's two    *)
(* choices, or a Transaction left at the defaults of its dataclass.             *)

TrustedTransactionInputs ==
    { [date |-> <<2024, 6, 1>>, milk_kg |-> 10, milk_mound |-> 250, rate |-> 80, time_of_day |-> "Morning"],
      [date |-> <<2024, 6, 1>>, milk_kg |-> 10, milk_mound |-> 125, rate |-> 80, time_of_day |-> "Evening"],
      [date |-> <<2024, 6, 1>>, milk_kg |-> 5,  milk_mound |-> 250, rate |-> 80, time_of_day |-> "Morning"],
      [date |-> <<2024, 1, 31>>, milk_kg |-> 5, milk_mound |-> 125, rate |-> 90, time_of_day |-> "Evening"],
      [date |-> <<2024, 6, 1>>, milk_kg |-> 0,  milk_mound |-> 0,   rate |-> 0,  time_of_day |-> ""] }

TrustedTransactionArgs(id) ==
    {[id |-> id, customer_id |-> c, date |-> t.date, milk_kg |-> t.milk_kg,
      milk_mound |-> t.milk_mound, rate |-> t.rate, time_of_day |-> t.time_of_day] :
        c \in CustomerIds, t \in TrustedTransactionInputs}

NextTrusted ==
    \/ \E t \in TrustedTransactionArgs(0) : AddTransaction(t)
    \/ \E id \in 0..MaxTransactions : \E t \in TrustedTransactionArgs(id) : UpdateTransaction(t)
    \/ \E id \in 1..MaxTransactions : DeleteTransaction(id)

SpecTrusted == Init /\ [][NextTrusted]_vars

-----------------------------------------------------------------------------
(* The forms of app.py that write deliveries and payments. A number input has  *)
(* min_value 0, so a form submits zero or a positive number; the customer is   *)
(* picked from the stored customers. Quantities are in the units of the store  *)
(* above: whole kg and thousandths of a mound.                                 *)

\* convert_kg_to_mound and convert_mound_to_kg on those units.
KgToMound(milk_kg) == (milk_kg * 1000) \div 40

MoundToKg(milk_mound) == (milk_mound * 40) \div 1000

\* What the forms can submit.
FormNames == {"", "Ali"}

FormDates == { <<2024, 6, 1>> }

FormKilograms == {0, 5, 10}

FormMounds == {0, 125, 250}

FormRates == {80}

FormAmounts == {0, 500}

\* The test with the zero let through.
NotPositiveBelowZero(number) == number < 0

\* The test of the submit handlers on a quantity or an amount: "if milk_kg <= 0"
\* and "if amount <= 0" refuse, "if morning_kg > 0" and "payment_amount > 0" go on.
NotPositive(number) == number <= 0

\* The transactions table and its sequence as they stand.
TransactionsUnchanged ==
    [transactions |-> transactions, sqlite_sequence |-> sqlite_sequence]

\* The payments table and its sequence as they stand.
PaymentsUnchanged ==
    [payments |-> payments, sqlite_sequence |-> sqlite_sequence]

\* The quantity pair of the add and edit forms: the typed value in the selected
\* unit and the other one converted from it.
QuantityPair(unit_selection, quantity) ==
    IF unit_selection = "Kilograms (kg)"
    THEN [milk_kg |-> quantity, milk_mound |-> KgToMound(quantity)]
    ELSE [milk_kg |-> MoundToKg(quantity), milk_mound |-> quantity]

\* "Add Customer": the name is required.
show_add_customer_form(name, phone, address) ==
    IF name # ""
    THEN LET call == add_customer([id |-> 0, name |-> name, phone |-> phone,
                                   address |-> address])
         IN  [customers |-> call.customers, sqlite_sequence |-> call.sqlite_sequence]
    ELSE [customers |-> customers, sqlite_sequence |-> sqlite_sequence]

\* "Save Transaction" of the add form.
show_add_transaction_form(customer_id, transaction_date, unit_selection, quantity, rate, time_of_day) ==
    LET pair == QuantityPair(unit_selection, quantity)
        call == add_transaction([id |-> 0, customer_id |-> customer_id,
                                 date |-> transaction_date, milk_kg |-> pair.milk_kg,
                                 milk_mound |-> pair.milk_mound, rate |-> rate,
                                 time_of_day |-> time_of_day])
    IN  IF NotPositive(pair.milk_kg) THEN TransactionsUnchanged
        ELSE [transactions |-> call.transactions, sqlite_sequence |-> call.sqlite_sequence]

\* "Update Transaction" of the edit form, shown for a stored transaction.
show_edit_transaction_form(transaction_id, customer_id, transaction_date, unit_selection, quantity, rate, time_of_day) ==
    LET pair == QuantityPair(unit_selection, quantity)
        call == update_transaction([id |-> transaction_id, customer_id |-> customer_id,
                                    date |-> transaction_date, milk_kg |-> pair.milk_kg,
                                    milk_mound |-> pair.milk_mound, rate |-> rate,
                                    time_of_day |-> time_of_day])
    IN  IF get_transaction(transaction_id) = None \/ NotPositive(pair.milk_kg)
        THEN TransactionsUnchanged
        ELSE [transactions |-> call.transactions, sqlite_sequence |-> sqlite_sequence]

\* "Add Entries" of the daily entry page: a Morning row when morning_kg > 0, then
\* an Evening row when evening_kg > 0.
milk_entry_form(customer_id, entry_date, morning_kg, morning_rate, evening_kg, evening_rate) ==
    LET morning == IF NotPositive(morning_kg) THEN TransactionsUnchanged
                   ELSE LET call == add_transaction(
                                [id |-> 0, customer_id |-> customer_id, date |-> entry_date,
                                 milk_kg |-> morning_kg, milk_mound |-> KgToMound(morning_kg),
                                 rate |-> morning_rate, time_of_day |-> "Morning"])
                        IN  [transactions |-> call.transactions,
                             sqlite_sequence |-> call.sqlite_sequence]
        evening_id == AutoincrementRowid(morning.transactions,
                                         morning.sqlite_sequence.transactions)
    IN  IF NotPositive(evening_kg) THEN morning
        ELSE [transactions |->
                  Append(morning.transactions,
                         TransactionRow(evening_id,
                                [id |-> 0, customer_id |-> customer_id, date |-> entry_date,
                                 milk_kg |-> evening_kg, milk_mound |-> KgToMound(evening_kg),
                                 rate |-> evening_rate, time_of_day |-> "Evening"])),
              sqlite_sequence |-> [morning.sqlite_sequence EXCEPT !.transactions = evening_id]]

\* "Record Payment" of the daily entry page and of the payments page.
show_add_payment_form(customer_id, payment_date, payment_amount) ==
    LET call == add_payment([id |-> 0, customer_id |-> customer_id, date |-> payment_date,
                             amount |-> payment_amount])
    IN  IF NotPositive(payment_amount) THEN PaymentsUnchanged
        ELSE [payments |-> call.payments, sqlite_sequence |-> call.sqlite_sequence]

\* "Update Payment" of the edit form, shown for a stored payment.
show_edit_payment_form(payment_id, customer_id, payment_date, payment_amount) ==
    LET call == update_payment([id |-> payment_id, customer_id |-> customer_id,
                                date |-> payment_date, amount |-> payment_amount])
    IN  IF get_payment(payment_id) = None \/ NotPositive(payment_amount) THEN PaymentsUnchanged
        ELSE [payments |-> call.payments, sqlite_sequence |-> sqlite_sequence]

\* A form is submitted and leaves the customers table as outcome says.
SubmitCustomer(outcome) ==
    /\ Len(outcome.customers) <= MaxCustomers
    /\ customers' = outcome.customers
    /\ sqlite_sequence' = outcome.sqlite_sequence
    /\ issued' = [issued EXCEPT !.customers = @ \cup Ids(outcome.customers)]
    /\ UNCHANGED <<transactions, payments, deleted, form, db, session>>

\* A form is submitted and leaves the transactions table as outcome says.
SubmitTransactions(outcome) ==
    /\ outcome.sqlite_sequence.transactions <= MaxTransactions
    /\ transactions' = outcome.transactions
    /\ sqlite_sequence' = outcome.sqlite_sequence
    /\ issued' = [issued EXCEPT !.transactions = @ \cup Ids(outcome.transactions)]
    /\ UNCHANGED <<customers, payments, deleted, form, db, session>>

\* A form is submitted and leaves the payments table as outcome says.
SubmitPayments(outcome) ==
    /\ outcome.sqlite_sequence.payments <= MaxPayments
    /\ payments' = outcome.payments
    /\ sqlite_sequence' = outcome.sqlite_sequence
    /\ issued' = [issued EXCEPT !.payments = @ \cup Ids(outcome.payments)]
    /\ UNCHANGED <<customers, transactions, deleted, form, db, session>>

NextEntry ==
    \/ \E name \in FormNames :
           SubmitCustomer(show_add_customer_form(name, "0300", "Lahore"))
    \/ \E c \in Ids(customers), d \in FormDates, unit \in {"Kilograms (kg)", "Mound"},
          quantity \in FormKilograms \cup FormMounds, rate \in FormRates,
          time_of_day \in {"Morning", "Evening"} :
           /\ quantity \in IF unit = "Mound" THEN FormMounds ELSE FormKilograms
           /\ SubmitTransactions(
                  show_add_transaction_form(c, d, unit, quantity, rate, time_of_day))
    \/ \E id \in 1..MaxTransactions :
       \E c \in Ids(customers), d \in FormDates, unit \in {"Kilograms (kg)", "Mound"},
          quantity \in FormKilograms \cup FormMounds, rate \in FormRates,
          time_of_day \in {"Morning", "Evening"} :
           /\ quantity \in IF unit = "Mound" THEN FormMounds ELSE FormKilograms
           /\ SubmitTransactions(
                  show_edit_transaction_form(id, c, d, unit, quantity, rate, time_of_day))
    \/ \E c \in Ids(customers), d \in FormDates, morning_kg, evening_kg \in FormKilograms,
          rate \in FormRates :
           SubmitTransactions(milk_entry_form(c, d, morning_kg, rate, evening_kg, rate))
    \/ \E c \in Ids(customers), d \in FormDates, payment_amount \in FormAmounts :
           SubmitPayments(show_add_payment_form(c, d, payment_amount))
    \/ \E id \in 1..MaxPayments :
       \E c \in Ids(customers), d \in FormDates, payment_amount \in FormAmounts :
           SubmitPayments(show_edit_payment_form(id, c, d, payment_amount))

SpecEntry == Init /\ [][NextEntry]_vars

-----------------------------------------------------------------------------
(* The store holding float quantities: deliveries of tenths of a kg and        *)
(* payments of tenths of a rupee, entered on two days in any order.            *)

MaxEntries == 3

EntryDates == { <<2024, 6, 1>>, <<2024, 6, 30>> }

\* Deliveries of 0.1, 0.2 and 0.3 kg at Rs 80; the second customer delivers 0.1 kg.
RealTransactionArgs(id) ==
    {[id |-> id, customer_id |-> c, date |-> d, milk_kg |-> Decimal(n, 1),
      milk_mound |-> app_convert_kg_to_mound(Decimal(n, 1)), rate |-> 80,
      time_of_day |-> "Morning"] :
        c \in {1}, d \in EntryDates, n \in 1..3}
    \cup {[id |-> id, customer_id |-> 2, date |-> <<2024, 6, 1>>, milk_kg |-> Decimal(1, 1),
           milk_mound |-> app_convert_kg_to_mound(Decimal(1, 1)), rate |-> 80,
           time_of_day |-> "Morning"]}

\* Payments of Rs 0.1 on the later day and of Rs 0.2 on the earlier one.
RealPaymentArgs(id) ==
    { [id |-> id, customer_id |-> 1, date |-> <<2024, 6, 30>>, amount |-> Decimal(1, 1)],
      [id |-> id, customer_id |-> 1, date |-> <<2024, 6, 1>>, amount |-> Decimal(2, 1)] }

AddRealTransaction(transaction) ==
    LET call == add_transaction(transaction)
    IN  /\ call.ret <= MaxEntries
        /\ transactions' = call.transactions
        /\ sqlite_sequence' = call.sqlite_sequence
        /\ issued' = [issued EXCEPT !.transactions = @ \cup {call.ret}]
        /\ UNCHANGED <<customers, payments, deleted, form, db, session>>

AddRealPayment(payment) ==
    LET call == add_payment(payment)
    IN  /\ call.ret <= MaxEntries
        /\ payments' = call.payments
        /\ sqlite_sequence' = call.sqlite_sequence
        /\ issued' = [issued EXCEPT !.payments = @ \cup {call.ret}]
        /\ UNCHANGED <<customers, transactions, deleted, form, db, session>>

NextTotals ==
    \/ \E t \in RealTransactionArgs(0) : AddRealTransaction(t)
    \/ \E id \in 1..MaxEntries : \E t \in RealTransactionArgs(id) : UpdateTransaction(t)
    \/ \E id \in 1..MaxEntries : DeleteTransaction(id)
    \/ \E p \in RealPaymentArgs(0) : AddRealPayment(p)

SpecTotals == Init /\ [][NextTotals]_vars

-----------------------------------------------------------------------------
(* Operations that interleave, one statement at a time. The statements of a    *)
(* method reach the connection and the cursor through self.conn and            *)
(* self.cursor each time. sqlite3 refuses the use of a connection or cursor    *)
(* from a thread other than the one that created it (ProgrammingError), None   *)
(* has no attributes (AttributeError), a write waits for the write lock of     *)
(* another connection and gives up after the timeout (OperationalError), and a *)
(* connection that nothing refers to any more is closed, which rolls back what *)
(* it has not committed.                                                       *)

\* The operations a session starts, each with one argument.
SessionCalls ==
    { [op |-> "add_customer",
       arg |-> [id |-> 0, name |-> "Ali", phone |-> "0300", address |-> "Lahore"]],
      [op |-> "delete_customer", arg |-> [customer_id |-> 1]],
      [op |-> "add_transaction",
       arg |-> [id |-> 0, customer_id |-> 1, date |-> <<2024, 6, 1>>, milk_kg |-> 10,
                milk_mound |-> 250, rate |-> 80, time_of_day |-> "Morning"]],
      [op |-> "add_payment",
       arg |-> [id |-> 0, customer_id |-> 1, date |-> <<2024, 6, 2>>, amount |-> 500]] }

\* The operations a session starts at most.
MaxCalls == 2

\* What session s gets when it uses the connection or cursor it finds in an
\* attribute of self.
Finds(object, s) ==
    IF object = 0 THEN "AttributeError"
    ELSE IF object = s THEN "own"
    ELSE "ProgrammingError"

\* The tables as a connection with nothing uncommitted reads them.
Committed ==
    [customers |-> customers, transactions |-> transactions, payments |-> payments,
     sqlite_sequence |-> sqlite_sequence]

\* The sessions once the attributes of self are d: a connection that neither
\* self.conn nor self.cursor of its instance refers to is closed and its
\* uncommitted statement rolled back.
Collected(d, states) ==
    [k \in Sessions |->
        IF d[states[k].instance].conn # k /\ d[states[k].instance].cursor # k
        THEN [states[k] EXCEPT !.uncommitted = NULL]
        ELSE states[k]]

\* The operation of session s ends with the exception e.
Raised(s, e) ==
    [session EXCEPT ![s].pc = "idle", ![s].ret = [raised |-> e]]

\* The operation of session s returns value.
Returned(s, value) ==
    [session EXCEPT ![s].pc = "idle", ![s].ret = [returned |-> value]]

\* Another connection holds the write lock.
Locked(s) == \E k \in Sessions \ {s} : session[k].uncommitted # NULL

\* A page calls a method of db.
Call(s, call) ==
    /\ session[s].pc = "idle"
    /\ session[s].calls < MaxCalls
    /\ session' = [session EXCEPT ![s].pc = "connect", ![s].op = call.op,
                                  ![s].arg = call.arg, ![s].calls = @ + 1,
                                  ![s].transaction_count = 0, ![s].payment_count = 0,
                                  ![s].local = NULL, ![s].ret = NULL]
    /\ UNCHANGED <<store, form, db>>

\* connect(): self.conn = sqlite3.connect(self.db_path), then row_factory.
OpenConnection(s) ==
    LET i == session[s].instance
        d == [db EXCEPT ![i].conn = s]
    IN  /\ session[s].pc = "connect"
        /\ db' = d
        /\ session' = Collected(d, [session EXCEPT ![s].pc = "cursor"])
        /\ UNCHANGED <<store, form>>

\* connect(): self.cursor = self.conn.cursor().
OpenCursor(s) ==
    LET i == session[s].instance
        d == [db EXCEPT ![i].cursor = s]
        first == IF session[s].op = "delete_customer" THEN "count_transactions" ELSE "insert"
    IN  /\ session[s].pc = "cursor"
        /\ IF Finds(db[i].conn, s) = "own"
           THEN /\ db' = d
                /\ session' = Collected(d, [session EXCEPT ![s].pc = first,
                                                           ![s].cursor = FreshCursor,
                                                           ![s].uncommitted = NULL])
           ELSE /\ session' = Raised(s, Finds(db[i].conn, s))
                /\ UNCHANGED db
        /\ UNCHANGED <<store, form>>

\* The tables after the INSERT of the operation, and the id it hands out.
InsertOf(op, arg) ==
    IF op = "add_customer"
    THEN [lastrowid |-> add_customer(arg).ret,
          tables |-> [Committed EXCEPT !.customers = add_customer(arg).customers,
                                       !.sqlite_sequence = add_customer(arg).sqlite_sequence]]
    ELSE IF op = "add_transaction"
    THEN [lastrowid |-> add_transaction(arg).ret,
          tables |-> [Committed EXCEPT !.transactions = add_transaction(arg).transactions,
                                       !.sqlite_sequence = add_transaction(arg).sqlite_sequence]]
    ELSE [lastrowid |-> add_payment(arg).ret,
          tables |-> [Committed EXCEPT !.payments = add_payment(arg).payments,
                                       !.sqlite_sequence = add_payment(arg).sqlite_sequence]]

\* self.cursor.execute("INSERT INTO ...") of add_customer, add_transaction and
\* add_payment.
ExecuteInsert(s) ==
    LET i == session[s].instance
        insert == InsertOf(session[s].op, session[s].arg)
    IN  /\ session[s].pc = "insert"
        /\ session' =
               IF Finds(db[i].cursor, s) # "own" THEN Raised(s, Finds(db[i].cursor, s))
               ELSE IF Locked(s) THEN Raised(s, "OperationalError")
               ELSE [session EXCEPT ![s].pc = "lastrowid",
                                    ![s].uncommitted = insert.tables,
                                    ![s].cursor = [lastrowid |-> insert.lastrowid,
                                                   rowcount |-> 1]]
        /\ UNCHANGED <<store, form, db>>

\* customer_id = self.cursor.lastrowid: an attribute that any thread can read.
ReadLastRowId(s) ==
    LET i == session[s].instance
    IN  /\ session[s].pc = "lastrowid"
        /\ session' =
               IF db[i].cursor = 0 THEN Raised(s, "AttributeError")
               ELSE [session EXCEPT ![s].pc = "commit",
                                    ![s].local = session[db[i].cursor].cursor.lastrowid]
        /\ UNCHANGED <<store, form, db>>

\* delete_customer: the SELECT COUNT(*) over transactions and its fetchone().
CountTransactions(s) ==
    LET i == session[s].instance
    IN  /\ session[s].pc = "count_transactions"
        /\ session' =
               IF Finds(db[i].cursor, s) # "own" THEN Raised(s, Finds(db[i].cursor, s))
               ELSE [session EXCEPT ![s].pc = "count_payments",
                                    ![s].transaction_count =
                                        CountOf(transactions, session[s].arg.customer_id)]
        /\ UNCHANGED <<store, form, db>>

\* delete_customer: the SELECT COUNT(*) over payments, its fetchone(), and the
\* test of the two counts.
CountPayments(s) ==
    LET i == session[s].instance
        payment_count == CountOf(payments, session[s].arg.customer_id)
    IN  /\ session[s].pc = "count_payments"
        /\ session' =
               IF Finds(db[i].cursor, s) # "own" THEN Raised(s, Finds(db[i].cursor, s))
               ELSE IF session[s].transaction_count > 0 \/ payment_count > 0
               THEN [session EXCEPT ![s].pc = "close", ![s].payment_count = payment_count,
                                    ![s].local = FALSE]
               ELSE [session EXCEPT ![s].pc = "delete", ![s].payment_count = payment_count]
        /\ UNCHANGED <<store, form, db>>

\* delete_customer: self.cursor.execute("DELETE FROM customers WHERE id = ?").
ExecuteDelete(s) ==
    LET i == session[s].instance
        customer_id == session[s].arg.customer_id
    IN  /\ session[s].pc = "delete"
        /\ session' =
               IF Finds(db[i].cursor, s) # "own" THEN Raised(s, Finds(db[i].cursor, s))
               ELSE IF Locked(s) THEN Raised(s, "OperationalError")
               ELSE [session EXCEPT ![s].pc = "commit",
                                    ![s].uncommitted =
                                        [Committed EXCEPT !.customers =
                                            SqlDelete(customers, customer_id)],
                                    ![s].cursor = [lastrowid |-> 0,
                                                   rowcount |-> RowCount(customers, customer_id)]]
        /\ UNCHANGED <<store, form, db>>

\* self.conn.commit()
Commit(s) ==
    LET i == session[s].instance
        tables == IF session[s].uncommitted = NULL THEN Committed ELSE session[s].uncommitted
        after == IF session[s].op = "delete_customer" THEN "rowcount" ELSE "close"
    IN  /\ session[s].pc = "commit"
        /\ IF Finds(db[i].conn, s) = "own"
           THEN /\ customers' = tables.customers
                /\ transactions' = tables.transactions
                /\ payments' = tables.payments
                /\ sqlite_sequence' = tables.sqlite_sequence
                /\ session' = [session EXCEPT ![s].pc = after, ![s].uncommitted = NULL]
           ELSE /\ session' = Raised(s, Finds(db[i].conn, s))
                /\ UNCHANGED <<customers, transactions, payments, sqlite_sequence>>
        /\ UNCHANGED <<issued, deleted, form, db>>

\* delete_customer: success = self.cursor.rowcount > 0, an attribute that any
\* thread can read.
ReadRowCount(s) ==
    LET i == session[s].instance
    IN  /\ session[s].pc = "rowcount"
        /\ session' =
               IF db[i].cursor = 0 THEN Raised(s, "AttributeError")
               ELSE [session EXCEPT ![s].pc = "close",
                                    ![s].local = session[db[i].cursor].cursor.rowcount > 0]
        /\ UNCHANGED <<store, form, db>>

\* close(): if self.conn: self.conn.close(). With self.conn None the method is
\* done and the operation returns.
CloseConnection(s) ==
    LET i == session[s].instance
    IN  /\ session[s].pc = "close"
        /\ session' =
               IF db[i].conn = 0 THEN Returned(s, session[s].local)
               ELSE IF db[i].conn = s
               THEN [session EXCEPT ![s].pc = "forget_conn", ![s].uncommitted = NULL]
               ELSE Raised(s, "ProgrammingError")
        /\ UNCHANGED <<store, form, db>>

\* close(): self.conn = None
ForgetConnection(s) ==
    LET i == session[s].instance
        d == [db EXCEPT ![i].conn = 0]
    IN  /\ session[s].pc = "forget_conn"
        /\ db' = d
        /\ session' = Collected(d, [session EXCEPT ![s].pc = "forget_cursor"])
        /\ UNCHANGED <<store, form>>

\* close(): self.cursor = None, and the operation returns.
ForgetCursor(s) ==
    LET i == session[s].instance
        d == [db EXCEPT ![i].cursor = 0]
    IN  /\ session[s].pc = "forget_cursor"
        /\ db' = d
        /\ session' = Collected(d, Returned(s, session[s].local))
        /\ UNCHANGED <<store, form>>

\* Two sessions of one server share the DairyDatabase of get_database(); or each
\* of two processes has constructed its own on the same database file.
InitSessions ==
    /\ customers = <<>>
    /\ transactions = <<>>
    /\ payments = <<>>
    /\ sqlite_sequence = [customers |-> 0, transactions |-> 0, payments |-> 0]
    /\ issued = [customers |-> {}, transactions |-> {}, payments |-> {}]
    /\ deleted = {}
    /\ form = EmptyForm
    /\ db = [i \in Instances |-> Unconnected]
    /\ \/ session = [s \in Sessions |-> IdleSession(1)]
       \/ session = [s \in Sessions |-> IdleSession(s)]

NextSessions ==
    \/ \E s \in Sessions : \E call \in SessionCalls : Call(s, call)
    \/ \E s \in Sessions : OpenConnection(s)
    \/ \E s \in Sessions : OpenCursor(s)
    \/ \E s \in Sessions : ExecuteInsert(s)
    \/ \E s \in Sessions : ReadLastRowId(s)
    \/ \E s \in Sessions : CountTransactions(s)
    \/ \E s \in Sessions : CountPayments(s)
    \/ \E s \in Sessions : ExecuteDelete(s)
    \/ \E s \in Sessions : Commit(s)
    \/ \E s \in Sessions : ReadRowCount(s)
    \/ \E s \in Sessions : CloseConnection(s)
    \/ \E s \in Sessions : ForgetConnection(s)
    \/ \E s \in Sessions : ForgetCursor(s)

SpecSessions == InitSessions /\ [][NextSessions]_vars

-----------------------------------------------------------------------------
(* Properties *)

RowSet(rows) == {rows[i] : i \in 1..Len(rows)}

\* Calendar order of two dates.
DateLE(d, e) ==
    \/ d[1] < e[1]
    \/ d[1] = e[1] /\ d[2] < e[2]
    \/ d[1] = e[1] /\ d[2] = e[2] /\ d[3] <= e[3]

\* A stored Transaction or Payment has customer_id = c.
HasDependents(c) ==
    \/ \E r \in RowSet(transactions) : r.customer_id = c
    \/ \E r \in RowSet(payments) : r.customer_id = c

\* The call of C1: it returns False and hands back the customers table unchanged.
C1_RefusedCall ==
    \A c \in CustomerIds :
        HasDependents(c) =>
            /\ delete_customer(c).ret = FALSE
            /\ delete_customer(c).customers = customers

\* The step of C1: none of the three tables changes.
C1_RefusedStep ==
    \A c \in CustomerIds :
        (DeleteCustomer(c) /\ HasDependents(c)) =>
            /\ customers' = customers
            /\ transactions' = transactions
            /\ payments' = payments

\* C1: delete_customer(c), called while at least one stored Transaction or Payment
\* has customer_id = c, returns False, and the customers, transactions and payments
\* tables are all exactly as they were before the call.
C1_DeleteWithDependentsRefused == []C1_RefusedCall /\ [][C1_RefusedStep]_vars

\* A stored customer with a payment and no transaction, and one with a transaction,
\* each refused by delete_customer.
C1_Witness ==
    /\ \E c \in Ids(customers) :
           /\ CountOf(payments, c) > 0 /\ CountOf(transactions, c) = 0
           /\ delete_customer(c).ret = FALSE
    /\ \E c \in Ids(customers) :
           /\ CountOf(transactions, c) > 0
           /\ delete_customer(c).ret = FALSE

\* C2: delete_customer(c) for a stored customer c with no Transaction and no
\* Payment returns True and removes the row, and from then on get_customer(c)
\* returns None whatever operations follow.
C2_DeleteThenNotFound ==
    /\ \A c \in Ids(customers) :
           ~HasDependents(c) =>
               /\ delete_customer(c).ret = TRUE
               /\ c \notin Ids(delete_customer(c).customers)
    /\ \A c \in deleted : get_customer(c) = None

\* Customer 1 was deleted and a customer was added afterwards (it got id 2).
C2_Witness ==
    /\ 1 \in deleted
    /\ sqlite_sequence.customers = 2
    /\ get_customer(1) = None
    /\ get_customer(2) # None

\* The stored rows of customer c dated from start to end in calendar order, a
\* NULL bound leaving that side open.
Matching(rows, c, start, end) ==
    {r \in RowSet(rows) :
        /\ r.customer_id = c
        /\ start # NULL => DateLE(start, fromisoformat(r.date))
        /\ end # NULL => DateLE(fromisoformat(r.date), end)}

\* The sum of Term over a finite set.
SetSum(S, Term(_)) ==
    LET sum[T \in SUBSET S] ==
            IF T = {} THEN 0
            ELSE LET x == CHOOSE y \in T : TRUE IN Term(x) + sum[T \ {x}]
    IN  sum[S]

Elements(list) == {list[i] : i \in 1..Len(list)}

ZeroSummary ==
    [total_milk_kg |-> 0, total_milk_mound |-> 0, total_amount |-> 0, rent |-> 0,
     mandi_average |-> 0, commission |-> 0, net_amount |-> 0, total_paid |-> 0,
     remaining_amount |-> 0]

\* C3: for every store content, customer and date range, get_customer_summary
\* returns rent = total_milk_kg x 0.05, mandi_average = total_milk_kg x 0.02,
\* commission = total_milk_kg x 0.03, net_amount = total_amount - (rent +
\* mandi_average + commission) and remaining_amount = net_amount - total_paid,
\* total_amount being the sum of milk_kg x rate and total_paid the sum of the
\* payment amounts over the customer's rows dated inside the closed range.
C3_SummaryFormulas ==
    \A c \in CustomerIds, start, end \in QueryDates :
        LET summary == get_customer_summary(c, start, end)
            T == Matching(transactions, c, start, end)
            P == Matching(payments, c, start, end)
        IN  /\ summary.total_milk_kg = SetSum(T, LAMBDA r : r.milk_kg)
            /\ summary.total_amount = SetSum(T, LAMBDA r : r.milk_kg * r.rate)
            /\ summary.total_paid = SetSum(P, LAMBDA r : r.amount)
            /\ summary.rent = summary.total_milk_kg * 5
            /\ summary.mandi_average = summary.total_milk_kg * 2
            /\ summary.commission = summary.total_milk_kg * 3
            /\ summary.net_amount =
                   100 * summary.total_amount
                       - (summary.rent + summary.mandi_average + summary.commission)
            /\ summary.remaining_amount = summary.net_amount - 100 * summary.total_paid

\* A summary over two transactions at different rates and one payment, a second
\* payment of the same customer lying outside the range.
C3_Witness ==
    \E c \in CustomerIds, start, end \in QueryDates :
        /\ Cardinality(Matching(transactions, c, start, end)) = 2
        /\ \E r1, r2 \in Matching(transactions, c, start, end) : r1.rate # r2.rate
        /\ Cardinality(Matching(payments, c, start, end)) = 1
        /\ CountOf(payments, c) = 2
        /\ get_customer_summary(c, start, end).remaining_amount > 0

\* The scenario of C4 for the customer with id a: customer Ali, the two
\* transactions of 2024-06-01 and the payment of 2024-06-02, and nothing else of a.
ScenarioAli(a) ==
    /\ \E r \in RowSet(customers) : r.id = a /\ r.name = "Ali"
    /\ CountOf(transactions, a) = 2
    /\ {[date |-> fromisoformat(r.date), milk_kg |-> r.milk_kg, rate |-> r.rate,
         time_of_day |-> r.time_of_day] : r \in Matching(transactions, a, NULL, NULL)}
         = {[date |-> <<2024, 6, 1>>, milk_kg |-> 10, rate |-> 80, time_of_day |-> "Morning"],
            [date |-> <<2024, 6, 1>>, milk_kg |-> 5, rate |-> 80, time_of_day |-> "Evening"]}
    /\ CountOf(payments, a) = 1
    /\ \A r \in Matching(payments, a, NULL, NULL) :
           fromisoformat(r.date) = <<2024, 6, 2>> /\ r.amount = 500

\* C4 as stated: in the scenario the summary over 2024-06-01..2024-06-30 has
\* total_milk_kg=15, total_amount=1200, rent=0.75, mandi_average=0.3,
\* commission=0.45, net_amount=1198.10, total_paid=500, remaining_amount=698.10.
C4_AsStated ==
    \A a \in CustomerIds :
        ScenarioAli(a) =>
            LET summary == get_customer_summary(a, <<2024, 6, 1>>, <<2024, 6, 30>>)
            IN  /\ summary.total_milk_kg = 15
                /\ summary.total_amount = 1200
                /\ summary.rent = 75
                /\ summary.mandi_average = 30
                /\ summary.commission = 45
                /\ summary.net_amount = 119810
                /\ summary.total_paid = 500
                /\ summary.remaining_amount = 69810

\* C4 as amended: the same scenario and fields with net_amount=1198.50 and
\* remaining_amount=698.50.
C4_ScenarioSummary ==
    \A a \in CustomerIds :
        ScenarioAli(a) =>
            LET summary == get_customer_summary(a, <<2024, 6, 1>>, <<2024, 6, 30>>)
            IN  /\ summary.total_milk_kg = 15
                /\ summary.total_amount = 1200
                /\ summary.rent = 75
                /\ summary.mandi_average = 30
                /\ summary.commission = 45
                /\ summary.net_amount = 119850
                /\ summary.total_paid = 500
                /\ summary.remaining_amount = 69850

\* The scenario has been set up for customer 1, the Morning delivery entered first.
C4_Witness ==
    /\ ScenarioAli(1)
    /\ transactions[1].time_of_day = "Morning"
    /\ issued = [customers |-> {1}, transactions |-> {1, 2}, payments |-> {1}]

\* C5: when no transaction and no payment of the customer falls in the requested
\* range (the customer id may be one that is not stored), every one of the nine
\* fields of get_customer_summary is zero.
C5_EmptyRangeAllZero ==
    \A c \in CustomerIds, start, end \in QueryDates :
        (Matching(transactions, c, start, end) = {} /\ Matching(payments, c, start, end) = {})
            => get_customer_summary(c, start, end) = ZeroSummary

\* A customer id that is not stored is asked for over a range in which another
\* customer has a transaction and a payment, and a stored customer is asked for
\* over a range that leaves out all of its rows.
C5_Witness ==
    /\ \E c \in CustomerIds \ Ids(customers) : \E o \in Ids(customers) :
           \E start, end \in QueryDates :
               /\ Matching(transactions, c, start, end) = {}
               /\ Matching(payments, c, start, end) = {}
               /\ Matching(transactions, o, start, end) # {}
               /\ Matching(payments, o, start, end) # {}
    /\ \E c \in Ids(customers) : \E start, end \in QueryDates :
           /\ DateLE(start, end)
           /\ CountOf(transactions, c) > 0
           /\ CountOf(payments, c) > 0
           /\ get_customer_summary(c, start, end) = ZeroSummary

\* C6: get_customer_transactions returns its rows by date ascending and, within
\* one date, every Morning transaction before every Evening transaction (stated
\* here for the stored customers, which is where the store is meant to hold rows).
C6_MorningBeforeEvening ==
    \A c \in Ids(customers), start, end \in OptionalDates :
        \A list \in get_customer_transactions(c, start, end) :
            \A i, j \in 1..Len(list) :
                i < j =>
                    /\ DateLE(list[i].date, list[j].date)
                    /\ list[i].date = list[j].date =>
                           ~(list[i].time_of_day = "Evening" /\ list[j].time_of_day = "Morning")

\* C7: get_customer_transactions and get_customer_payments return exactly the
\* rows of the given customer whose date d satisfies start <= d <= end, both
\* bounds inclusive, each once; an omitted bound leaves that side open.
C7_InclusiveRange ==
    \A c \in CustomerIds, start, end \in OptionalDates :
        LET lists == get_customer_transactions(c, start, end)
            T == {Transaction(r) : r \in Matching(transactions, c, start, end)}
            paid == get_customer_payments(c, start, end)
            P == {Payment(r) : r \in Matching(payments, c, start, end)}
        IN  /\ lists # {}
            /\ \A list \in lists : Elements(list) = T /\ Len(list) = Cardinality(T)
            /\ paid # {}
            /\ \A list \in paid : Elements(list) = P /\ Len(list) = Cardinality(P)

\* A customer has a transaction and a payment dated 2024-01-31 and later ones:
\* the range ending 2024-01-31 keeps the former and drops the latter, and with
\* the start omitted as well.
C7_Witness ==
    \E c \in CustomerIds :
        /\ \E r \in RowSet(transactions) :
               r.customer_id = c /\ fromisoformat(r.date) = <<2024, 6, 1>>
        /\ \E r \in RowSet(payments) :
               r.customer_id = c /\ fromisoformat(r.date) = <<2024, 6, 2>>
        /\ \A start \in {NULL, <<2024, 1, 31>>} :
               /\ \E list \in get_customer_transactions(c, start, <<2024, 1, 31>>) :
                      Len(list) = 1 /\ list[1].date = <<2024, 1, 31>>
               /\ \E list \in get_customer_payments(c, start, <<2024, 1, 31>>) :
                      Len(list) = 1 /\ list[1].date = <<2024, 1, 31>>

\* C8: with start_date > end_date the two lists are empty and the summary is all
\* zeros, for every store content.
C8_ReversedRangeEmpty ==
    \A c \in CustomerIds, start, end \in QueryDates :
        ~DateLE(start, end) =>
            /\ get_customer_transactions(c, start, end) = {<<>>}
            /\ get_customer_payments(c, start, end) = {<<>>}
            /\ get_customer_summary(c, start, end) = ZeroSummary

\* A customer has a transaction and a payment dated between the end and the start
\* of a reversed range, and the queries over that range return nothing.
C8_Witness ==
    \E c \in CustomerIds, start, end \in QueryDates :
        /\ ~DateLE(start, end)
        /\ Matching(transactions, c, end, start) # {}
        /\ Matching(payments, c, end, start) # {}
        /\ get_customer_transactions(c, start, end) = {<<>>}
        /\ get_customer_summary(c, start, end) = ZeroSummary

\* C9: in every reachable state each stored Transaction's customer_id, and each
\* stored Payment's customer_id, is the id of a stored Customer.
C9_CustomerIdsReferToCustomers ==
    /\ \A r \in RowSet(transactions) : r.customer_id \in Ids(customers)
    /\ \A r \in RowSet(payments) : r.customer_id \in Ids(customers)

SameIds(before, after) ==
    /\ Len(after) = Len(before)
    /\ \A i \in 1..Len(before) : after[i].id = before[i].id

\* C10: the id returned by add_customer / add_transaction / add_payment differs
\* from every id returned before for the same kind, ids of rows since deleted
\* included, and no update changes the id of a stored row.
C10_IdsUniqueAndStable ==
    /\ \A c \in CustomerArgs(0) : add_customer(c).ret \notin issued.customers
    /\ \A t \in TransactionArgs(0) : add_transaction(t).ret \notin issued.transactions
    /\ \A p \in PaymentArgs(0) : add_payment(p).ret \notin issued.payments
    /\ \A id \in 0..MaxCustomers : \A c \in CustomerArgs(id) :
           SameIds(customers, update_customer(c).customers)
    /\ \A id \in 0..MaxTransactions : \A t \in TransactionArgs(id) :
           SameIds(transactions, update_transaction(t).transactions)
    /\ \A id \in 0..MaxPayments : \A p \in PaymentArgs(id) :
           SameIds(payments, update_payment(p).payments)

\* Two ids have been returned for transactions and for payments, the row of the
\* larger id has been deleted in the one table and that of the smaller in the other.
C10_Witness ==
    /\ issued.transactions = {1, 2} /\ Ids(transactions) = {1}
    /\ issued.payments = {1, 2} /\ Ids(payments) = {2}

\* C11: add_customer called with a Customer whose name is absent (Customer.name
\* then has its default, the empty string) or empty fails, inserts no row and
\* returns no id: the customers table is as it was before the call.
C11_EmptyNameRejected ==
    \A c \in NamedCustomerArgs(0) :
        c.name = "" =>
            /\ add_customer(c).customers = customers
            /\ add_customer(c).ret \notin Ids(add_customer(c).customers)

\* The rank of a name in ascending case-sensitive lexicographic order: the empty
\* name first, and every upper-case letter before every lower-case one.
NameRank(name) ==
    CASE name = ""      -> 0
      [] name = "Ali"   -> 1
      [] name = "Bilal" -> 2
      [] name = "ali"   -> 3

\* C16: get_all_customers returns every stored customer exactly once, in
\* ascending case-sensitive lexicographic order of name, after any sequence of
\* add, update (rename) and delete operations.
C16_AllCustomersByName ==
    /\ get_all_customers # {}
    /\ \A list \in get_all_customers :
           /\ Len(list) = Len(customers)
           /\ Elements(list) = {Customer(r) : r \in RowSet(customers)}
           /\ \A i, j \in 1..Len(list) :
                  i < j => NameRank(list[i].name) <= NameRank(list[j].name)

\* Customer 1 is named "ali" and customer 2 "Bilal", and the list has customer 2
\* first and customer 1 second.
C16_Witness ==
    /\ Len(customers) = 2
    /\ customers[1].name = "ali" /\ customers[2].name = "Bilal"
    /\ \A list \in get_all_customers :
           list[1].id = customers[2].id /\ list[2].id = customers[1].id

\* The calls of C12: each returns False and hands back its table unchanged.
C12_MissedCall ==
    /\ \A id \in 0..(MaxCustomers + 1) : \A c \in CustomerArgs(id) :
           id \notin Ids(customers) =>
               /\ update_customer(c).ret = FALSE
               /\ update_customer(c).customers = customers
    /\ \A id \in 0..(MaxTransactions + 1) : \A t \in TransactionArgs(id) :
           id \notin Ids(transactions) =>
               /\ update_transaction(t).ret = FALSE
               /\ update_transaction(t).transactions = transactions
    /\ \A id \in 0..(MaxPayments + 1) : \A p \in PaymentArgs(id) :
           id \notin Ids(payments) =>
               /\ update_payment(p).ret = FALSE
               /\ update_payment(p).payments = payments

\* The steps of C12: none of the three tables changes.
C12_MissedStep ==
    /\ \A id \in 0..MaxCustomers : \A c \in CustomerArgs(id) :
           (id \notin Ids(customers) /\ UpdateCustomer(c)) =>
               UNCHANGED <<customers, transactions, payments>>
    /\ \A id \in 0..MaxTransactions : \A t \in TransactionArgs(id) :
           (id \notin Ids(transactions) /\ UpdateTransaction(t)) =>
               UNCHANGED <<customers, transactions, payments>>
    /\ \A id \in 0..MaxPayments : \A p \in PaymentArgs(id) :
           (id \notin Ids(payments) /\ UpdatePayment(p)) =>
               UNCHANGED <<customers, transactions, payments>>

\* C12: update_customer, update_transaction and update_payment called with an id
\* that matches no stored row (or with no id) return False and leave all three
\* tables unchanged.
C12_UpdateOfMissingIdRefused == []C12_MissedCall /\ [][C12_MissedStep]_vars

\* All three tables hold rows; an update_transaction naming the id of a deleted
\* transaction, an update_payment naming an id never issued and an
\* update_customer without an id are each refused.
C12_Witness ==
    /\ customers # <<>> /\ transactions # <<>> /\ payments # <<>>
    /\ \E id \in issued.transactions \ Ids(transactions) : \E t \in TransactionArgs(id) :
           update_transaction(t).ret = FALSE
    /\ \E id \in CustomerIds \ issued.payments : \E p \in PaymentArgs(id) :
           update_payment(p).ret = FALSE
    /\ \E c \in CustomerArgs(0) : update_customer(c).ret = FALSE

\* Every row but the one with the given id is where and what it was.
OtherRowsKept(before, after, id) ==
    /\ Len(after) = Len(before)
    /\ \A i \in 1..Len(before) : before[i].id # id => after[i] = before[i]

\* The calls of C13: each returns True.
C13_UpdatedCall ==
    /\ \A id \in Ids(customers) : \A c \in CustomerArgs(id) :
           update_customer(c).ret = TRUE
    /\ \A id \in Ids(transactions) : \A t \in TransactionArgs(id) :
           update_transaction(t).ret = TRUE
    /\ \A id \in Ids(payments) : \A p \in PaymentArgs(id) :
           update_payment(p).ret = TRUE

\* The steps of C13: afterwards the get-by-id returns the record that was
\* supplied, and every other row of every table is as before.  (An update that
\* supplies the values already stored changes no variable.)
C13_UpdatedStep ==
    /\ \A id \in CustomerIds : \A c \in CustomerArgs(id) :
           (id \in Ids(customers) /\ customers' # customers /\ UpdateCustomer(c)) =>
               /\ get_customer(id)' = c
               /\ OtherRowsKept(customers, customers', id)
               /\ UNCHANGED <<transactions, payments>>
    /\ \A id \in 1..MaxTransactions : \A t \in TransactionArgs(id) :
           (id \in Ids(transactions) /\ transactions' # transactions /\ UpdateTransaction(t)) =>
               /\ get_transaction(id)' = t
               /\ OtherRowsKept(transactions, transactions', id)
               /\ UNCHANGED <<customers, payments>>
    /\ \A id \in 1..MaxPayments : \A p \in PaymentArgs(id) :
           (id \in Ids(payments) /\ payments' # payments /\ UpdatePayment(p)) =>
               /\ get_payment(id)' = p
               /\ OtherRowsKept(payments, payments', id)
               /\ UNCHANGED <<customers, transactions>>

\* C13: an update on an existing id returns True, after which the get-by-id of
\* that id returns a record whose every mutable field equals the supplied value
\* (full replace, no field retained from the old record), and every other row of
\* every table is unchanged.
C13_UpdateReplacesEveryField == []C13_UpdatedCall /\ [][C13_UpdatedStep]_vars

\* Transaction 1 is stored next to transaction 2, and an update_transaction of
\* it that differs from the stored row in every mutable field returns True and
\* leaves exactly the supplied values in row 1 and row 2 as it was; likewise a
\* customer whose name, phone and address all change.
C13_Witness ==
    /\ Len(transactions) = 2 /\ transactions[1].id = 1
    /\ \E t \in TransactionArgs(1) :
           LET old == Transaction(transactions[1])
               call == update_transaction(t)
           IN  /\ old.customer_id # t.customer_id /\ old.date # t.date
               /\ old.milk_kg # t.milk_kg /\ old.milk_mound # t.milk_mound
               /\ old.rate # t.rate /\ old.time_of_day # t.time_of_day
               /\ call.ret = TRUE
               /\ Transaction(call.transactions[1]) = t
               /\ call.transactions[2] = transactions[2]
    /\ \E id \in Ids(customers) : \E c \in CustomerArgs(id) :
           LET old == get_customer(id)
           IN  /\ old.name # c.name /\ old.phone # c.phone /\ old.address # c.address
               /\ update_customer(c).ret = TRUE

\* The calls of C14: the return value tells whether the id was stored, and the
\* table handed back holds the other rows, each once and in their old order.
C14_DeleteCall ==
    /\ \A id \in 0..(MaxTransactions + 1) :
           LET call == delete_transaction(id)
           IN  /\ call.ret = (id \in Ids(transactions))
               /\ RowSet(call.transactions) = {r \in RowSet(transactions) : r.id # id}
               /\ \A i, j \in 1..Len(call.transactions) :
                      i < j => call.transactions[i].id < call.transactions[j].id
    /\ \A id \in 0..(MaxPayments + 1) :
           LET call == delete_payment(id)
           IN  /\ call.ret = (id \in Ids(payments))
               /\ RowSet(call.payments) = {r \in RowSet(payments) : r.id # id}
               /\ \A i, j \in 1..Len(call.payments) :
                      i < j => call.payments[i].id < call.payments[j].id

\* The steps of C14: the customers table and the other entity table stay.
C14_DeleteStep ==
    /\ \A id \in 1..MaxTransactions :
           DeleteTransaction(id) => UNCHANGED <<customers, payments>>
    /\ \A id \in 1..MaxPayments :
           DeletePayment(id) => UNCHANGED <<customers, transactions>>

\* C14: delete_transaction(id) and delete_payment(id) return True exactly when a
\* row with that id existed, remove that row only, and leave the customers table,
\* the other entity table and all other rows of the same table unchanged.
C14_DeleteRemovesOneRow == []C14_DeleteCall /\ [][C14_DeleteStep]_vars

\* A customer has two transactions and two payments; deleting transaction 1
\* leaves transaction 2, deleting payment 2 leaves payment 1, and a delete of an
\* id that is not stored returns False.
C14_Witness ==
    /\ customers # <<>>
    /\ Ids(transactions) = {1, 2} /\ Ids(payments) = {1, 2}
    /\ transactions[1].customer_id = transactions[2].customer_id
    /\ payments[1].customer_id = transactions[1].customer_id
    /\ delete_transaction(1).ret = TRUE
    /\ delete_transaction(1).transactions = <<transactions[2]>>
    /\ delete_payment(2).ret = TRUE
    /\ delete_payment(2).payments = <<payments[1]>>
    /\ delete_transaction(MaxTransactions + 1).ret = FALSE

\* C15: get_customer, get_transaction and get_payment called with an id that
\* matches no stored row return None; none of the three runs a statement other
\* than its SELECT, so the store is as it was.
C15_MissingIdReturnsNone ==
    /\ \A id \in 0..(MaxCustomers + 1) :
           id \notin Ids(customers) => get_customer(id) = None
    /\ \A id \in 0..(MaxTransactions + 1) :
           id \notin Ids(transactions) => get_transaction(id) = None
    /\ \A id \in 0..(MaxPayments + 1) :
           id \notin Ids(payments) => get_payment(id) = None

\* Each table holds a row and has lost one: the lookups of the lost ids return
\* None and those of the stored ids a record.
C15_Witness ==
    /\ \E id \in issued.customers \ Ids(customers) : get_customer(id) = None
    /\ \E id \in Ids(customers) : get_customer(id) # None
    /\ \E id \in issued.transactions \ Ids(transactions) : get_transaction(id) = None
    /\ \E id \in Ids(transactions) : get_transaction(id) # None
    /\ \E id \in issued.payments \ Ids(payments) : get_payment(id) = None
    /\ \E id \in Ids(payments) : get_payment(id) # None

RowOf(rows, id) == CHOOSE r \in RowSet(rows) : r.id = id

\* What is stored and read back for C19: no row has an amount column, and the
\* amount of every transaction read back is its stored milk_kg x its stored rate.
C19_AmountRead ==
    /\ \A r \in RowSet(transactions) : "amount" \notin DOMAIN r
    /\ \A id \in Ids(transactions) :
           amount(get_transaction(id))
               = RowOf(transactions, id).milk_kg * RowOf(transactions, id).rate
    /\ \A c \in CustomerIds : \A list \in get_customer_transactions(c, NULL, NULL) :
           \A i \in 1..Len(list) :
               amount(list[i])
                   = RowOf(transactions, list[i].id).milk_kg * RowOf(transactions, list[i].id).rate

\* The steps of C19: after an add_transaction or an update_transaction the amount
\* read back is the supplied milk_kg x the supplied rate.
C19_AmountStep ==
    /\ \A t \in RevisedTransactionArgs(0) :
           (transactions' # transactions /\ AddTransaction(t)) =>
               \A transaction_id \in {add_transaction(t).ret} :
                   amount(get_transaction(transaction_id))' = t.milk_kg * t.rate
    /\ \A id \in 1..MaxTransactions : \A t \in RevisedTransactionArgs(id) :
           (id \in Ids(transactions) /\ transactions' # transactions /\ UpdateTransaction(t)) =>
               amount(get_transaction(id))' = t.milk_kg * t.rate

\* C19: the amount of a Transaction is never stored: after any sequence of
\* add_transaction and update_transaction calls (including updates that change
\* only rate or only milk_kg), the amount of every transaction read back equals
\* its current milk_kg x current rate.
C19_AmountNeverStored == []C19_AmountRead /\ [][C19_AmountStep]_vars

\* A stored transaction of 10 kg at rate 80 reads back with amount 800; the
\* update that changes its rate alone to 90 leaves a row that reads back with
\* 900, and the update that changes its milk_kg alone to 5 one with 400.
C19_Witness ==
    \E id \in Ids(transactions) :
        LET old == get_transaction(id)
            rated == [old EXCEPT !.rate = 90]
            weighed == [old EXCEPT !.milk_kg = 5]
        IN  /\ old.milk_kg = 10 /\ old.rate = 80 /\ amount(old) = 800
            /\ rated \in RevisedTransactionArgs(id)
            /\ update_transaction(rated).ret = TRUE
            /\ amount(Transaction(RowOf(update_transaction(rated).transactions, id))) = 900
            /\ weighed \in RevisedTransactionArgs(id)
            /\ update_transaction(weighed).ret = TRUE
            /\ amount(Transaction(RowOf(update_transaction(weighed).transactions, id))) = 400

WithinOneUlp(x, y) ==
    \/ x = y
    \/ x.e = y.e /\ (WideSucc(x.m) = y.m \/ WideSucc(y.m) = x.m)
    \/ x.e = y.e + 1 /\ x.m = One.m /\ WideSucc(y.m)[4] = 32
    \/ y.e = x.e + 1 /\ y.m = One.m /\ WideSucc(x.m)[4] = 32

\* C18 as stated: a quantity typed in kg, converted to mound and back, is the
\* typed quantity again, and one typed in mound, converted to kg and back, is
\* the typed quantity again; the copies of the two conversions agree.
C18_AsStated ==
    /\ form.entered.unit_selection = "Kilograms (kg)" =>
           /\ form.milk_kg = form.entered.value
           /\ convert_mound_to_kg(convert_kg_to_mound(form.entered.value)) = form.entered.value
    /\ form.entered.unit_selection = "Mound" =>
           /\ form.milk_mound = form.entered.value
           /\ convert_kg_to_mound(convert_mound_to_kg(form.entered.value)) = form.entered.value
    /\ app_convert_kg_to_mound(form.milk_kg) = convert_kg_to_mound(form.milk_kg)
    /\ app_convert_mound_to_kg(form.milk_mound) = convert_mound_to_kg(form.milk_mound)

\* C18 as amended: the quantity that comes back is the typed one or a float next
\* to it (the two conversions are inverses to within one unit in the last place
\* of the float), and the copies of the two conversions agree.
C18_RoundTripWithinOneUlp ==
    /\ form.entered.unit_selection = "Kilograms (kg)" =>
           /\ WithinOneUlp(form.milk_kg, form.entered.value)
           /\ WithinOneUlp(convert_mound_to_kg(convert_kg_to_mound(form.entered.value)),
                           form.entered.value)
    /\ form.entered.unit_selection = "Mound" =>
           /\ WithinOneUlp(form.milk_mound, form.entered.value)
           /\ WithinOneUlp(convert_kg_to_mound(convert_mound_to_kg(form.entered.value)),
                           form.entered.value)
    /\ app_convert_kg_to_mound(form.milk_kg) = convert_kg_to_mound(form.milk_kg)
    /\ app_convert_mound_to_kg(form.milk_mound) = convert_mound_to_kg(form.milk_mound)

\* 0.9 kg was typed and the form went to mound and back: milk_kg is now the float
\* just below 0.9, and is not 0.9.
C18_Witness ==
    /\ form.entered = [unit_selection |-> "Kilograms (kg)", value |-> Decimal(9, 1)]
    /\ form.unit_selection = "Mound"
    /\ form.milk_kg # form.entered.value
    /\ WideSucc(form.milk_kg.m) = form.entered.value.m

\* kg / 40 in thousandths of a mound.
KgAsMound(kg) == (kg * 1000) \div 40

\* The first two parts of C21: the row that add_transaction or update_transaction
\* writes carries the milk_mound of its argument next to the milk_kg of its
\* argument, and total_milk_mound is the sum of the stored milk_mound column over
\* the matching rows.
C21_MoundStoredAndSummed ==
    /\ \A t \in TrustedTransactionArgs(0) :
           \A call \in {add_transaction(t)} :
               \E r \in RowSet(call.transactions) :
                   /\ r.id = call.ret
                   /\ r.milk_mound = t.milk_mound
                   /\ r.milk_kg = t.milk_kg
    /\ \A id \in Ids(transactions) : \A t \in TrustedTransactionArgs(id) :
           \A r \in RowSet(update_transaction(t).transactions) :
               r.id = id => r.milk_mound = t.milk_mound /\ r.milk_kg = t.milk_kg
    /\ \A id \in Ids(transactions) :
           get_transaction(id).milk_mound = RowOf(transactions, id).milk_mound
    /\ \A c \in CustomerIds, start, end \in QueryDates :
           get_customer_summary(c, start, end).total_milk_mound =
               SetSum(Matching(transactions, c, start, end), LAMBDA r : r.milk_mound)

\* The rows of a range whose milk_mound is not milk_kg / 40.
Deviating(c, start, end) ==
    {r \in Matching(transactions, c, start, end) : r.milk_mound # KgAsMound(r.milk_kg)}

C23_TimeOfDayMorningOrEvening ==
    \A r \in RowSet(transactions) : r.time_of_day \in {"Morning", "Evening"}

\* A Transaction or Payment argument that belongs to customer c and is dated
\* from start to end.
ArgMatches(x, c, start, end) ==
    x.customer_id = c /\ DateLE(start, x.date) /\ DateLE(x.date, end)

\* C29: get_customer_summary(c, start, end) is unaffected by rows that do not
\* match. Adding, updating or deleting a transaction or payment that, before and
\* after the change, belongs to another customer or is dated outside [start, end]
\* leaves all nine summary fields for c unchanged.
C29_SummaryFrame ==
    \A c \in CustomerIds, start, end \in QueryDates :
        \A summary \in {get_customer_summary(c, start, end)} :
            /\ \A t \in TransactionArgs(0) :
                   ~ArgMatches(t, c, start, end) =>
                       SummaryQueries(add_transaction(t).transactions, payments,
                                      c, start, end) = summary
            /\ \A id \in Ids(transactions) :
                   RowOf(transactions, id) \notin Matching(transactions, c, start, end) =>
                       /\ SummaryQueries(delete_transaction(id).transactions, payments,
                                         c, start, end) = summary
                       /\ \A t \in TransactionArgs(id) :
                              ~ArgMatches(t, c, start, end) =>
                                  SummaryQueries(update_transaction(t).transactions,
                                                 payments, c, start, end) = summary
            /\ \A p \in PaymentArgs(0) :
                   ~ArgMatches(p, c, start, end) =>
                       SummaryQueries(transactions, add_payment(p).payments,
                                      c, start, end) = summary
            /\ \A id \in Ids(payments) :
                   RowOf(payments, id) \notin Matching(payments, c, start, end) =>
                       /\ SummaryQueries(transactions, delete_payment(id).payments,
                                         c, start, end) = summary
                       /\ \A p \in PaymentArgs(id) :
                              ~ArgMatches(p, c, start, end) =>
                                  SummaryQueries(transactions, update_payment(p).payments,
                                                 c, start, end) = summary

\* Customer 1 has a delivery and a payment in June, next to a delivery of its own
\* dated in January and a payment of customer 2: the June summary of customer 1
\* is not zero, and the January delivery and the other customer's payment can be
\* changed or deleted.
C29_Witness ==
    /\ Len(transactions) = 2 /\ Len(payments) = 2
    /\ Cardinality(Matching(transactions, 1, <<2024, 6, 1>>, <<2024, 6, 30>>)) = 1
    /\ CountOf(transactions, 1) = 2
    /\ Cardinality(Matching(payments, 1, <<2024, 6, 1>>, <<2024, 6, 30>>)) = 1
    /\ CountOf(payments, 2) = 1
    /\ get_customer_summary(1, <<2024, 6, 1>>, <<2024, 6, 30>>).remaining_amount # 0
    /\ \E id \in Ids(transactions) :
           SummaryQueries(delete_transaction(id).transactions, payments,
                          1, <<2024, 6, 1>>, <<2024, 6, 30>>)
               = get_customer_summary(1, <<2024, 6, 1>>, <<2024, 6, 30>>)

\* C25: the remaining balance create_bill_pdf computes for a BillSummary built
\* from get_customer_summary and the matching transaction and payment lists
\* equals that summary's remaining_amount: total transaction value minus rent,
\* minus mandi average, minus commission, minus total payments.
C25_PdfBalanceIsRemainingAmount ==
    \A c \in Ids(customers), start, end \in QueryDates :
        \A bill_summary \in show_customer_bill_report(c, start, end) :
            /\ create_bill_pdf(bill_summary).balance = bill_summary.remaining_amount
            /\ create_bill_pdf(bill_summary).balance =
                   bill_summary.total_amount - bill_summary.rent
                       - bill_summary.mandi_average - bill_summary.commission
                       - Hundredths(bill_summary.paid_amount)

\* C26: the bill of "Generate Complete Bill" with the default percentages 5, 2
\* and 3 carries the same rent, mandi_average, commission, net amount and
\* remaining amount as get_customer_summary for the same customer and range.
C26_CompleteBillAgreesWithSummary ==
    \A c \in Ids(customers), start, end \in QueryDates :
        \A bill_summary \in GenerateCompleteBill(c, start, end, 5, 2, 3) :
            \A summary \in {get_customer_summary(c, start, end)} :
                /\ bill_summary.rent = summary.rent
                /\ bill_summary.mandi_average = summary.mandi_average
                /\ bill_summary.commission = summary.commission
                /\ bill_summary.total_amount = summary.net_amount
                /\ bill_summary.remaining_amount = summary.remaining_amount

\* C30: the 'Current Balance' of a customer accounts for every stored transaction
\* and payment of that customer whatever their dates: on every day it is the sum
\* of milk_kg x rate over all the customer's transactions, minus the deductions
\* on their total weight, minus the sum of all the customer's payments.
C30_BalanceCountsEveryEntry ==
    \A c \in Ids(customers), today \in QueryDates :
        LET T == {r \in RowSet(transactions) : r.customer_id = c}
            P == {r \in RowSet(payments) : r.customer_id = c}
            weight == SetSum(T, LAMBDA r : r.milk_kg)
        IN  current_balance(c, today) =
                100 * SetSum(T, LAMBDA r : r.milk_kg * r.rate)
                    - weight * (5 + 2 + 3)
                    - 100 * SetSum(P, LAMBDA r : r.amount)

\* Session s is inside an operation, past its connect().
Connected(s) == session[s].pc \notin {"idle", "connect", "cursor"}

\* C27: when two operations on the one shared DairyDatabase interleave, each
\* still runs its statements on the connection and cursor it opened itself and
\* returns its own result; none finds its cursor or connection replaced or set
\* to None by the other.
C27_OperationsKeepTheirConnection ==
    \A s \in Sessions :
        /\ (Connected(s) /\ session[s].pc \notin {"forget_conn", "forget_cursor"}) =>
               /\ db[session[s].instance].conn \in {s}
               /\ db[session[s].instance].cursor \in {s}
        /\ session[s].ret # NULL => DOMAIN session[s].ret = {"returned"}

\* C28: delete_customer(c) never removes customer c while a Transaction or
\* Payment referencing c is stored, also when an add_transaction or add_payment
\* for c commits between the two count queries and the DELETE.
C28_NoDeleteWhileDependentsStored ==
    [][\A c \in CustomerIds :
          (c \in Ids(customers) /\ c \notin Ids(customers')) => ~HasDependents(c)]_vars

\* The number of quantities among kgs that are greater than zero.
Positives(kgs) == Cardinality({i \in DOMAIN kgs : kgs[i] > 0})

\* C22: after any sequence of submissions of the entry and edit forms, every
\* stored Transaction has milk_kg > 0 and every stored Payment has amount > 0; a
\* submission with a non-positive quantity or amount inserts or changes no row.
C22_FormsStoreOnlyPositive ==
    /\ \A r \in RowSet(transactions) : r.milk_kg > 0
    /\ \A r \in RowSet(payments) : r.amount > 0
    /\ \A c \in Ids(customers), d \in FormDates, time_of_day \in {"Morning", "Evening"} :
           /\ \A unit \in {"Kilograms (kg)", "Mound"}, id \in 0..MaxTransactions :
                  /\ show_add_transaction_form(c, d, unit, 0, 80, time_of_day).transactions
                         = transactions
                  /\ show_edit_transaction_form(id, c, d, unit, 0, 80, time_of_day).transactions
                         = transactions
           /\ \A morning_kg, evening_kg \in FormKilograms :
                  \A after \in {milk_entry_form(c, d, morning_kg, 80, evening_kg, 80).transactions} :
                      /\ Len(after) = Len(transactions) + Positives(<<morning_kg, evening_kg>>)
                      /\ SubSeq(after, 1, Len(transactions)) = transactions
                      /\ \A r \in RowSet(after) : r.milk_kg > 0
           /\ show_add_payment_form(c, d, 0).payments = payments
           /\ \A id \in 0..MaxPayments :
                  show_edit_payment_form(id, c, d, 0).payments = payments

\* A delivery entered in mound and a payment are stored, and the forms refuse to
\* set either to zero: the daily entry form with 0 kg in the morning and 5 kg in
\* the evening adds the Evening row alone.
C22_Witness ==
    /\ Len(transactions) = 1 /\ Len(payments) = 1
    /\ transactions[1].milk_mound = 125 /\ transactions[1].milk_kg = 5
    /\ \E c \in Ids(customers) :
           /\ show_edit_transaction_form(1, c, <<2024, 6, 1>>, "Mound", 0, 80, "Morning").transactions
                  = transactions
           /\ show_edit_payment_form(1, c, <<2024, 6, 1>>, 0).payments = payments
           /\ Len(milk_entry_form(c, <<2024, 6, 1>>, 0, 80, 5, 80).transactions) = 2
           /\ milk_entry_form(c, <<2024, 6, 1>>, 0, 80, 5, 80).transactions[2].time_of_day
                  = "Evening"

\* sum() of Python 3.11 over a list: the items added one by one, first to last,
\* to a total that starts at 0.
Fold(terms) == FloatSumFrom(Zero, terms)

\* The objects of list are in the order of their ids.
InIdOrder(list) == \A i \in 1..(Len(list) - 1) : list[i].id < list[i + 1].id

\* list with its objects put in the order of their ids.
ById(list) ==
    CHOOSE other \in {[i \in 1..Len(list) |-> list[p[i]]] : p \in Arrangements(Len(list))} :
        InIdOrder(other)

\* The totals of the summary are the folds over list and over paid.
TotalsAreFolds(totals, list, paid) ==
    /\ totals.total_milk_kg = Fold([i \in 1..Len(list) |-> list[i].milk_kg])
    /\ totals.total_amount = Fold([i \in 1..Len(list) |-> real_amount(list[i])])
    /\ totals.total_paid = Fold([i \in 1..Len(paid) |-> paid[i].amount])

====
